---- MODULE Spec2Model ----
(***************************************************************************)
(* Model of homopy's Mori-Tanaka homogenizer (homopy/methods.py) and of    *)
(* the tensor notation it inherits from homopy.tensor.Tensor.              *)
(*                                                                         *)
(* Numbers.  The program computes in float64; what is stated of it are     *)
(* algebraic facts (two results are equal, an array is symmetric, an       *)
(* inverse exists or not).  Exact rational arithmetic on 6x6 inverses      *)
(* leaves the range of TLC's integers after one inversion, so the model    *)
(* computes exactly in a field that fits: the integers modulo the prime    *)
(* Modulus.  Every +, -, * and / of the program is the field's.  An         *)
(* equation between rational expressions that holds in exact arithmetic    *)
(* holds in the field, and two results that differ in the field differ in  *)
(* exact arithmetic (no divisor being 0 in the field).  The field has a    *)
(* square root of 2, which the normalized Voigt (Mandel) notation needs.   *)
(* The float NaN is one further value, absorbing for every operation as    *)
(* in IEEE arithmetic.  Order and magnitude are not modelled.              *)
(***************************************************************************)
EXTENDS Integers, Sequences, FiniteSets, TLC

\* ------------------------------------------------------------- numbers

\* A prime of the form 8k + 7 (2 is a square modulo it) whose square fits
\* TLC's integers.
Modulus == 2^15 + 15

NaN == 0 - 1
IsNaN(x) == x < 0
IsZero(x) == x = 0

\* The integer p as a number.
Num(p) == p % Modulus

Neg(x) == IF IsNaN(x) THEN NaN ELSE (Modulus - x) % Modulus

Add(x, y) == IF IsNaN(x) \/ IsNaN(y) THEN NaN ELSE (x + y) % Modulus

Sub(x, y) == IF IsNaN(x) \/ IsNaN(y) THEN NaN ELSE (x + Modulus - y) % Modulus

Mul(x, y) == IF IsNaN(x) \/ IsNaN(y) THEN NaN ELSE (x * y) % Modulus

RECURSIVE Power(_, _)
Power(x, n) ==
    IF n = 0 THEN 1
    ELSE LET h == Power(x, n \div 2)
             hh == (h * h) % Modulus
         IN  IF n % 2 = 1 THEN (hh * x) % Modulus ELSE hh

\* 1/x for x neither zero nor NaN (Fermat).
Recip(x) == Power(x, Modulus - 2)

\* x / y for y neither zero nor NaN.
Div(x, y) == IF IsNaN(x) THEN NaN ELSE Mul(x, Recip(y))

\* The fraction p/q as a number (q not a multiple of Modulus).
Rat(p, q) == Div(Num(p), Num(q))

\* The square root of 2 (the smaller of the two; the other is its negative).
Sqrt2 == CHOOSE s \in 1..(Modulus \div 2) : (s * s) % Modulus = 2

\* ---------------------------------------------------------- evaluation
\* F(a), F(a, b): the argument is evaluated once and F works on its value.  (An
\* operator's argument and a LET definition are expressions, evaluated where
\* they are used; these bind a value instead.)
With1(a, F(_)) == CHOOSE r \in {F(x) : x \in {a}} : TRUE
With2(a, b, F(_, _)) == CHOOSE r \in {F(x, y) : x \in {a}, y \in {b}} : TRUE

\* ------------------------------------------------------------ matrices
\* A 6x6 array is a tuple of six rows, each a tuple of six numbers.

Row6(f(_)) == <<f(1), f(2), f(3), f(4), f(5), f(6)>>

Mat6(E(_, _)) ==
    <<Row6(LAMBDA j : E(1, j)), Row6(LAMBDA j : E(2, j)),
      Row6(LAMBDA j : E(3, j)), Row6(LAMBDA j : E(4, j)),
      Row6(LAMBDA j : E(5, j)), Row6(LAMBDA j : E(6, j))>>

eye == Mat6(LAMBDA i, j : IF i = j THEN 1 ELSE 0)
Zeros66 == Mat6(LAMBDA i, j : 0)
NaN66 == Mat6(LAMBDA i, j : NaN)

HasNaN(A) == \E M \in {A} : \E i \in 1..6 : \E j \in 1..6 : IsNaN(M[i][j])

MatAdd(A, B) ==
    With2(A, B, LAMBDA X, Y : Mat6(LAMBDA i, j : Add(X[i][j], Y[i][j])))
MatSub(A, B) ==
    With2(A, B, LAMBDA X, Y : Mat6(LAMBDA i, j : Sub(X[i][j], Y[i][j])))
Scale(c, A) ==
    With2(c, A, LAMBDA x, X : Mat6(LAMBDA i, j : Mul(x, X[i][j])))

Dot6(A, B, i, j) ==
    Add(Add(Add(Mul(A[i][1], B[1][j]), Mul(A[i][2], B[2][j])),
            Add(Mul(A[i][3], B[3][j]), Mul(A[i][4], B[4][j]))),
        Add(Mul(A[i][5], B[5][j]), Mul(A[i][6], B[6][j])))

\* Gauss-Jordan elimination on the rows of [A | I], column c onwards.  A row
\* is a twelve-tuple.  The result is <<>> when column c has no pivot.
Row12(f(_)) ==
    <<f(1), f(2), f(3), f(4), f(5), f(6), f(7), f(8), f(9), f(10), f(11), f(12)>>

Singular == <<>>

RECURSIVE GaussJordan(_, _)
GaussJordan(M, c) ==
    IF c > 6 THEN M
    ELSE LET cand == {r \in c..6 : ~IsZero(M[r][c])}
         IN  IF cand = {} THEN Singular
             ELSE With1(CHOOSE r \in cand : \A q \in cand : r <= q, LAMBDA p :
                  With1(Recip(M[p][c]), LAMBDA f :
                  With1(Row12(LAMBDA k : Mul(f, M[p][k])), LAMBDA prow :
                      LET Src(r) == IF r = p THEN M[c] ELSE M[r]
                          Elim(r) ==
                              IF r = c THEN prow
                              ELSE IF IsZero(Src(r)[c]) THEN Src(r)
                              ELSE Row12(LAMBDA k :
                                       Sub(Src(r)[k], Mul(Src(r)[c], prow[k])))
                      IN  With1(Row6(Elim), LAMBDA N : GaussJordan(N, c + 1)))))

Augmented(A) ==
    Row6(LAMBDA i : Row12(LAMBDA k : IF k <= 6 THEN A[i][k]
                                    ELSE IF k - 6 = i THEN 1 ELSE 0))

\* An inversion that reports nothing: zeros for a singular matrix.
invUnchecked(A) ==
    With1(A, LAMBDA X :
        IF HasNaN(X) THEN NaN66
        ELSE With1(Augmented(X), LAMBDA XI :
             With1(GaussJordan(XI, 1), LAMBDA R :
                 IF R = Singular THEN Zeros66
                 ELSE Mat6(LAMBDA i, j : R[i][j + 6]))))

\* numpy.linalg.inv: the inverse, Singular for a singular matrix (LinAlgError),
\* and an all-NaN array when the argument holds a NaN (LAPACK finds no zero
\* pivot in it, so no error is raised).
inv(A) ==
    With1(A, LAMBDA X :
        IF HasNaN(X) THEN NaN66
        ELSE With1(Augmented(X), LAMBDA XI :
             With1(GaussJordan(XI, 1), LAMBDA R :
                 IF R = Singular THEN Singular
                 ELSE Mat6(LAMBDA i, j : R[i][j + 6]))))

IsSymmetric66(A) == \A i \in 1..6 : \A j \in 1..6 : A[i][j] = A[j][i]

\* ------------------------------------------------- homopy.tensor.Tensor
\* A 3x3x3x3 array is a tuple nested four deep, indexed T[i][j][k][l] with
\* indices 1..3 (the program's 0..2 shifted by one).

Tup3(f(_)) == <<f(1), f(2), f(3)>>

Ten4(E(_, _, _, _)) ==
    Tup3(LAMBDA i : Tup3(LAMBDA j : Tup3(LAMBDA k : Tup3(LAMBDA l : E(i, j, k, l)))))

Zeros3333 == Ten4(LAMBDA i, j, k, l : 0)

\* The index pair of reduced index m, in the order 11, 22, 33, 23, 13, 12.
VoigtPairs == <<<<1, 1>>, <<2, 2>>, <<3, 3>>, <<2, 3>>, <<1, 3>>, <<1, 2>>>>

\* The reduced index of the index pair (i, j).
VoigtIndex(i, j) == IF i = j THEN i ELSE 9 - i - j

\* The weight of reduced index m: 1 for a normal pair, sqrt(2) for a shear pair.
MandelWeight(m) == IF m <= 3 THEN 1 ELSE Sqrt2

\* Tensor.tensor_product on two 6x6 arrays: the matrix product.
tensor_product(A, B) ==
    With2(A, B, LAMBDA X, Y : Mat6(LAMBDA i, j : Dot6(X, Y, i, j)))

\* Tensor.tensor2mandel: entry (m, n) is the component at the index pairs of m
\* and n, scaled by the weights of m and n (1, sqrt(2) or 2 in all).
tensor2mandelBadScale(T) ==
    With1(T, LAMBDA X : Mat6(LAMBDA m, n :
        Mul(IF m <= 3 /\ n <= 3 THEN 1 ELSE 2,
            X[VoigtPairs[m][1]][VoigtPairs[m][2]][VoigtPairs[n][1]][VoigtPairs[n][2]])))

\* tensor2mandel with the shear pairs in the order 12, 13, 23.
tensor2mandelShearOrder(T) ==
    With1(T, LAMBDA X : Mat6(LAMBDA m, n :
        LET p == IF m <= 3 THEN m ELSE 10 - m
            q == IF n <= 3 THEN n ELSE 10 - n
        IN  Mul(Mul(MandelWeight(m), MandelWeight(n)),
                X[VoigtPairs[p][1]][VoigtPairs[p][2]][VoigtPairs[q][1]][VoigtPairs[q][2]])))

\* tensor2mandel without the weights: the plain Voigt notation.
tensor2mandelVoigt(T) ==
    With1(T, LAMBDA X : Mat6(LAMBDA m, n :
        X[VoigtPairs[m][1]][VoigtPairs[m][2]][VoigtPairs[n][1]][VoigtPairs[n][2]]))

tensor2mandel(T) ==
    With1(T, LAMBDA X : Mat6(LAMBDA m, n :
        Mul(Mul(MandelWeight(m), MandelWeight(n)),
            X[VoigtPairs[m][1]][VoigtPairs[m][2]][VoigtPairs[n][1]][VoigtPairs[n][2]])))

\* Tensor.mandel2tensor: the inverse mapping, undoing the same scaling.
mandel2tensorNoScale(M) ==
    With1(M, LAMBDA X :
        Ten4(LAMBDA i, j, k, l : X[VoigtIndex(i, j)][VoigtIndex(k, l)]))

mandel2tensor(M) ==
    With1(M, LAMBDA X : Ten4(LAMBDA i, j, k, l :
        Div(X[VoigtIndex(i, j)][VoigtIndex(k, l)],
            Mul(MandelWeight(VoigtIndex(i, j)), MandelWeight(VoigtIndex(k, l))))))

Idx3 == 1..3
LeftMinorSym(T) ==
    \A i, j, k, l \in Idx3 : T[i][j][k][l] = T[j][i][k][l]
RightMinorSym(T) ==
    \A i, j, k, l \in Idx3 : T[i][j][k][l] = T[i][j][l][k]
MajorSym(T) ==
    \A i, j, k, l \in Idx3 : T[i][j][k][l] = T[k][l][i][j]

\* ------------------------------------------- MoriTanaka._get_eshelby
\* Scalars reach the program as Python floats or as numpy float64 values.
\* They differ in a division by zero: Python raises ZeroDivisionError, numpy
\* warns and carries on with inf or NaN.
ScalarTypes == {"float", "float64"}

\* The shape function g = a/(a2-1)^(3/2) * (a*(a2-1)^(1/2) - arccosh(a)) of
\* line 134 is transcendental.  For the aspect ratios of the model it is a
\* table of fractions near its values (g(2) = 0.826.., g(3) = 0.891..); every
\* entry of the tensor is affine in g, and nothing stated below depends on the
\* value.  At a = 1 the float64 value is inf * 0 = NaN.
gShape(a) ==
    CASE a = 2 -> Rat(5, 6)
      [] a = 3 -> Rat(8, 9)
      [] OTHER -> NaN

\* x / y in float64: a zero divisor gives inf (NaN for 0/0).  Every place the
\* program divides by a2 - 1 goes on to multiply by g or to add a term that
\* holds g, which is NaN exactly when a2 - 1 = 0, so inf is carried as NaN.
Quot(x, y) == IF IsNaN(y) \/ IsZero(y) THEN NaN ELSE Div(x, y)

\* The thirteen entries lines 136-183 assign, by index (i, j, k, l).
EshelbyEntry(nu, a2, g, i, j, k, l) ==
    LET am == Sub(a2, 1)
        n1 == Sub(1, nu)
        n2 == Sub(1, Mul(2, nu))
        S1111 == Mul(Quot(1, Mul(2, n1)),
                     Sub(Add(n2, Quot(Sub(Mul(3, a2), 1), am)),
                         Mul(Add(n2, Quot(Mul(3, a2), am)), g)))
        S2222 == Add(Mul(Quot(3, Mul(8, n1)), Quot(a2, am)),
                     Mul(Mul(Quot(1, Mul(4, n1)),
                             Sub(n2, Quot(9, Mul(4, am)))), g))
        S2233 == Mul(Quot(1, Mul(4, n1)),
                     Sub(Quot(a2, Mul(2, am)),
                         Mul(Add(n2, Quot(3, Mul(4, am))), g)))
        S2211 == Add(Mul(Quot(Num(-1), Mul(2, n1)), Quot(a2, am)),
                     Mul(Mul(Quot(1, Mul(4, n1)),
                             Sub(Quot(Mul(3, a2), am), n2)), g))
        S1122 == Add(Mul(Quot(Num(-1), Mul(2, n1)), Add(n2, Quot(1, am))),
                     Mul(Mul(Quot(1, Mul(2, n1)),
                             Add(n2, Quot(3, Mul(2, am)))), g))
        S2323 == Mul(Quot(1, Mul(4, n1)),
                     Add(Quot(a2, Mul(2, am)),
                         Mul(Sub(n2, Quot(3, Mul(4, am))), g)))
        S1212 == Mul(Quot(1, Mul(4, n1)),
                     Sub(Sub(n2, Quot(Add(a2, 1), am)),
                         Mul(Mul(Rat(1, 2),
                                 Sub(n2, Quot(Mul(3, Add(a2, 1)), am))), g)))
        ix == <<i, j, k, l>>
    IN  CASE ix = <<1, 1, 1, 1>> -> S1111
          [] ix = <<2, 2, 2, 2>> -> S2222
          [] ix = <<3, 3, 3, 3>> -> S2222
          [] ix = <<2, 2, 3, 3>> -> S2233
          [] ix = <<3, 3, 2, 2>> -> S2233
          [] ix = <<2, 2, 1, 1>> -> S2211
          [] ix = <<3, 3, 1, 1>> -> S2211
          [] ix = <<1, 1, 2, 2>> -> S1122
          [] ix = <<1, 1, 3, 3>> -> S1122
          [] ix = <<2, 3, 2, 3>> -> S2323
          [] ix = <<3, 2, 3, 2>> -> S2323
          [] ix = <<1, 2, 1, 2>> -> S1212
          [] ix = <<1, 3, 1, 3>> -> S1212
          [] OTHER -> 0

\* _get_eshelby with every entry of lines 136-183 also stored at the positions
\* that differ by a swap within an index pair.
get_eshelbyMinorSym(nu, a, st, return_dim) ==
    With2(Mul(a, a), gShape(a), LAMBDA a2, g :
        IF a2 = 1 /\ st = "float"
        THEN [err |-> "ZeroDivisionError", S |-> <<>>]
        ELSE With1(Ten4(LAMBDA i, j, k, l :
                       EshelbyEntry(nu, a2, g,
                                    IF i <= j THEN i ELSE j, IF i <= j THEN j ELSE i,
                                    IF k <= l THEN k ELSE l, IF k <= l THEN l ELSE k)),
                   LAMBDA S :
                 [err |-> "none",
                  S |-> IF return_dim = "66" THEN tensor2mandel(S) ELSE S]))

\* _get_eshelby(a_ratio, return_dim): [err, S].  With a Python float a = 1
\* the division a / (a2 - 1) ** (3 / 2) of line 134 raises.
get_eshelby(nu, a, st, return_dim) ==
    With2(Mul(a, a), gShape(a), LAMBDA a2, g :
        IF a2 = 1 /\ st = "float"
        THEN [err |-> "ZeroDivisionError", S |-> <<>>]
        ELSE With1(Ten4(LAMBDA i, j, k, l : EshelbyEntry(nu, a2, g, i, j, k, l)),
                   LAMBDA S :
                 [err |-> "none",
                  S |-> IF return_dim = "66" THEN tensor2mandel(S) ELSE S]))

\* -------------------------------- MoriTanaka.get_effective_stiffness
\* A call's outcome is a record: err is "none" or the exception that reaches
\* the caller, log lists the inversions and Eshelby computations the call
\* made, in order ("inv", "inv:singular", "eshelby").
Unset == <<>>

RECURSIVE AverageLoop(_, _, _)
\* Lines 215-219 from constituent i on; acc = <<A_ave, pol_A_ave>>.
AverageLoop(self, i, acc) ==
    IF i > self.nr_constituents THEN acc
    ELSE With1(<<MatAdd(acc[1], Scale(self.c_alpha[i], self.A_f_alpha[i])),
                 MatAdd(acc[2], Scale(self.c_alpha[i],
                            tensor_product(self.pol_alpha[i], self.A_f_alpha[i])))>>,
               LAMBDA next : AverageLoop(self, i + 1, next))

SingleStiffness(self) ==
    With1(inv(self.Cm), LAMBDA Cm_inv :
        IF Cm_inv = Singular
        THEN [err |-> "LinAlgError", C_eff |-> Unset, log |-> <<"inv:singular">>]
        ELSE With1(MatSub(self.Cf, self.Cm), LAMBDA pol :
             With1(MatAdd(eye, tensor_product(self.eshelby66,
                                   tensor_product(Cm_inv, pol))), LAMBDA A_inv :
             With1(inv(MatAdd(Scale(self.v_frac, eye),
                              Scale(Sub(1, self.v_frac), A_inv))), LAMBDA B :
                 IF B = Singular
                 THEN [err |-> "LinAlgError", C_eff |-> Unset,
                       log |-> <<"inv", "inv:singular">>]
                 ELSE [err |-> "none",
                       C_eff |-> MatAdd(self.Cm,
                                    Scale(self.v_frac, tensor_product(pol, B))),
                       log |-> <<"inv", "inv">>]))))

\* Lines 212-224 with the inverse taken of c_f * A_ave alone.
MultiStiffnessNoMatrixShare(self) ==
    With1(AverageLoop(self, 1, <<Zeros66, Zeros66>>), LAMBDA ave :
    With1(inv(Scale(self.c_f, ave[1])), LAMBDA B :
        IF B = Singular
        THEN [err |-> "LinAlgError", C_eff |-> Unset, log |-> <<"inv:singular">>]
        ELSE [err |-> "none",
              C_eff |-> MatAdd(self.Cm,
                           tensor_product(Scale(self.c_f, ave[2]), B)),
              log |-> <<"inv">>]))

MultiStiffness(self) ==
    With1(AverageLoop(self, 1, <<Zeros66, Zeros66>>), LAMBDA ave :
    With1(inv(MatAdd(Scale(self.c_f, ave[1]), Scale(Sub(1, self.c_f), eye))),
          LAMBDA B :
        IF B = Singular
        THEN [err |-> "LinAlgError", C_eff |-> Unset, log |-> <<"inv:singular">>]
        ELSE [err |-> "none",
              C_eff |-> MatAdd(self.Cm,
                           tensor_product(Scale(self.c_f, ave[2]), B)),
              log |-> <<"inv">>]))

get_effective_stiffness(self) ==
    IF ~self.isList THEN SingleStiffness(self) ELSE MultiStiffness(self)

\* ------------------------------------------------ MoriTanaka.__init__
\* sum(v_frac)
RECURSIVE SumSeq(_)
SumSeq(v) == IF v = <<>> THEN 0 ELSE Add(v[1], SumSeq(Tail(v)))

RECURSIVE ConstituentLoopAbsolute(_, _, _, _, _, _)
\* Lines 97-107 with line 107 appending v_frac[i] itself.
ConstituentLoopAbsolute(self, Cm_inv, fiber, v_frac, a_ratio, i) ==
    IF self.err # "none" \/ i > self.nr_constituents THEN self
    ELSE With2(MatSub(fiber[i].stiffness66, self.Cm),
               get_eshelby(self.matrix.nu, a_ratio[i], self.st, "66"),
               LAMBDA pol, E :
         IF E.err # "none"
         THEN [self EXCEPT !.err = E.err,
                           !.pol_alpha = Append(@, pol)]
         ELSE With1(inv(MatAdd(eye, tensor_product(E.S,
                                        tensor_product(Cm_inv, pol)))),
                    LAMBDA A :
              IF A = Singular
              THEN [self EXCEPT !.err = "LinAlgError",
                                !.pol_alpha = Append(@, pol),
                                !.log = @ \o <<"eshelby", "inv:singular">>]
              ELSE With1([self EXCEPT !.pol_alpha = Append(@, pol),
                                      !.A_f_alpha = Append(@, A),
                                      !.c_alpha = Append(@, v_frac[i]),
                                      !.log = @ \o <<"eshelby", "inv">>],
                         LAMBDA next :
                             ConstituentLoopAbsolute(next, Cm_inv, fiber, v_frac,
                                                     a_ratio, i + 1))))

RECURSIVE ConstituentLoop(_, _, _, _, _, _)
\* Lines 97-107 from constituent i on.  v / c_f of line 107: Python floats
\* raise on c_f = 0, float64 gives NaN.
ConstituentLoop(self, Cm_inv, fiber, v_frac, a_ratio, i) ==
    IF self.err # "none" \/ i > self.nr_constituents THEN self
    ELSE With2(MatSub(fiber[i].stiffness66, self.Cm),
               get_eshelby(self.matrix.nu, a_ratio[i], self.st, "66"),
               LAMBDA pol, E :
         IF E.err # "none"
         THEN [self EXCEPT !.err = E.err,
                           !.pol_alpha = Append(@, pol)]
         ELSE With1(inv(MatAdd(eye, tensor_product(E.S,
                                        tensor_product(Cm_inv, pol)))),
                    LAMBDA A :
              IF A = Singular
              THEN [self EXCEPT !.err = "LinAlgError",
                                !.pol_alpha = Append(@, pol),
                                !.log = @ \o <<"eshelby", "inv:singular">>]
              ELSE IF IsZero(self.c_f) /\ self.st = "float"
              THEN [self EXCEPT !.err = "ZeroDivisionError",
                                !.pol_alpha = Append(@, pol),
                                !.A_f_alpha = Append(@, A),
                                !.log = @ \o <<"eshelby", "inv">>]
              ELSE With1([self EXCEPT !.pol_alpha = Append(@, pol),
                                      !.A_f_alpha = Append(@, A),
                                      !.c_alpha = Append(@, Quot(v_frac[i], self.c_f)),
                                      !.log = @ \o <<"eshelby", "inv">>],
                         LAMBDA next :
                             ConstituentLoop(next, Cm_inv, fiber, v_frac,
                                             a_ratio, i + 1))))

\* The object as lines 70-75 leave it, before either branch.
NewSelf(matrix, fiber, isList, st) ==
    [err |-> "none", log |-> <<>>, st |-> st, isList |-> isList,
     matrix |-> matrix, fiber |-> fiber, Cm |-> matrix.stiffness66,
     Cf |-> Unset, v_frac |-> Unset, a_ratio |-> Unset, eshelby66 |-> Unset,
     nr_constituents |-> 0, A_f_alpha |-> <<>>, pol_alpha |-> <<>>,
     c_alpha |-> <<>>, c_f |-> 0,
     effective_stiffness66 |-> Unset, effective_stiffness3333 |-> Unset]

\* __init__ without lines 109-110, as in build/lib/homopy/methods.py.
StoreNothing(self) == self

\* Lines 109-110.
StoreEffective(self) ==
    IF self.err # "none" THEN self
    ELSE With1(get_effective_stiffness(self), LAMBDA R :
             IF R.err # "none"
             THEN [self EXCEPT !.err = R.err, !.log = @ \o R.log]
             ELSE [self EXCEPT !.log = @ \o R.log,
                               !.effective_stiffness66 = R.C_eff,
                               !.effective_stiffness3333 = mandel2tensor(R.C_eff)])

\* Lines 77-82: fiber is not a list.
InitSingle(self0, fiber, v_frac, a_ratio) ==
    With2(get_eshelby(self0.matrix.nu, a_ratio, self0.st, "66"),
          [self0 EXCEPT !.Cf = fiber.stiffness66, !.v_frac = v_frac,
                        !.a_ratio = a_ratio],
          LAMBDA E, self1 :
              IF E.err # "none" THEN [self1 EXCEPT !.err = E.err]
              ELSE [self1 EXCEPT !.eshelby66 = E.S, !.log = <<"eshelby">>])

\* Lines 84-107 without the assert: the loop runs until an index is out of
\* range.
InitMultiNoAssert(self0, fiber, v_frac, a_ratio) ==
    LET n == IF Len(v_frac) <= Len(a_ratio) THEN Len(v_frac) ELSE Len(a_ratio)
        k == IF Len(fiber) <= n THEN Len(fiber) ELSE n
    IN  With2([self0 EXCEPT !.nr_constituents = k, !.c_f = SumSeq(v_frac)],
              inv(self0.Cm), LAMBDA self1, Cm_inv :
            With1(IF Cm_inv = Singular
                  THEN [self1 EXCEPT !.err = "LinAlgError",
                                     !.log = <<"inv:singular">>]
                  ELSE ConstituentLoop([self1 EXCEPT !.log = <<"inv">>],
                                       Cm_inv, fiber, v_frac, a_ratio, 1),
                  LAMBDA r :
                      IF r.err = "none" /\ k < Len(fiber)
                      THEN [r EXCEPT !.err = "IndexError"]
                      ELSE [r EXCEPT !.nr_constituents = Len(fiber)]))

\* Lines 84-107: fiber is a list.
InitMulti(self0, fiber, v_frac, a_ratio) ==
    IF ~(Len(fiber) = Len(v_frac) /\ Len(v_frac) = Len(a_ratio))
    THEN [self0 EXCEPT !.err = "AssertionError"]
    ELSE With2([self0 EXCEPT !.nr_constituents = Len(fiber),
                             !.c_f = SumSeq(v_frac)],
               inv(self0.Cm), LAMBDA self1, Cm_inv :
             IF Cm_inv = Singular
             THEN [self1 EXCEPT !.err = "LinAlgError", !.log = <<"inv:singular">>]
             ELSE With1([self1 EXCEPT !.log = <<"inv">>], LAMBDA self2 :
                      ConstituentLoop(self2, Cm_inv, fiber, v_frac, a_ratio, 1)))

\* MoriTanaka(matrix, fiber, v_frac, a_ratio): the object __init__ leaves, with
\* err the exception that ended it ("none": the caller gets the object).
MoriTanaka(matrix, fiber, v_frac, a_ratio, isList, st) ==
    With1(NewSelf(matrix, fiber, isList, st), LAMBDA self0 :
    With1(IF ~isList THEN InitSingle(self0, fiber, v_frac, a_ratio)
          ELSE InitMulti(self0, fiber, v_frac, a_ratio), LAMBDA self1 :
        StoreEffective(self1)))

\* ------------------------------------------------------------ inputs
\* A material is a record of its stiffness66 and its Poisson ratio nu, as the
\* Elasticity classes of the package hand it over.

\* The stiffness of an isotropic material with Lame constants lam and mu, in
\* normalized Voigt notation.
Isotropic66(lam, mu) ==
    Mat6(LAMBDA i, j :
        IF i <= 3 /\ j <= 3 THEN (IF i = j THEN Num(lam + 2 * mu) ELSE Num(lam))
        ELSE IF i = j THEN Num(2 * mu) ELSE 0)

\* A symmetric stiffness with every entry non-zero (no material symmetry).
Anisotropic66(c) ==
    Mat6(LAMBDA i, j : Num((IF i = j THEN c + 4 * i ELSE i + j) + i * j))

\* A stiffness with the shear entry (6, 6) set to x.
WithShear(C, x) == Mat6(LAMBDA i, j : IF i = 6 /\ j = 6 THEN x ELSE C[i][j])

MatrixA == [stiffness66 |-> Isotropic66(2, 1), nu |-> Rat(1, 3)]
MatrixB == [stiffness66 |-> Anisotropic66(7), nu |-> Rat(1, 4)]
\* A matrix material without shear stiffness in the 1-2 plane: Cm is singular.
MatrixS == [stiffness66 |-> WithShear(Isotropic66(2, 1), 0), nu |-> Rat(1, 3)]
Matrices == {MatrixA, MatrixB, MatrixS}

FiberA == [stiffness66 |-> Isotropic66(2, 3), nu |-> Rat(1, 5)]
FiberB == [stiffness66 |-> Anisotropic66(11), nu |-> Rat(1, 5)]
\* The entry (6, 6) of the Eshelby tensor of MatrixA at aspect ratio 2.
EshelbyShear == get_eshelby(MatrixA.nu, 2, "float", "66").S[6][6]
\* In MatrixA at aspect ratio 2, FiberC makes I + S.Cm^-1.pol singular and
\* FiberD makes v.I + (1-v).(I + S.Cm^-1.pol) singular at v = 1/2.
FiberC == [stiffness66 |->
              WithShear(Isotropic66(2, 3), Mul(2, Sub(1, Recip(EshelbyShear)))),
           nu |-> Rat(1, 5)]
FiberD == [stiffness66 |->
              WithShear(Isotropic66(2, 3), Mul(2, Sub(1, Mul(2, Recip(EshelbyShear))))),
           nu |-> Rat(1, 5)]
Fibers == {FiberA, FiberB, FiberC, FiberD}

VolumeFractions == {0, Rat(1, 4), Rat(1, 2), 1}
AspectRatios == {1, 2, 3}

\* One constituent of a multi-inclusion call: the entries of the three lists
\* at one position.
Inclusions ==
    {[fiber |-> FiberA, v_frac |-> Rat(1, 4), a_ratio |-> 2],
     [fiber |-> FiberB, v_frac |-> Rat(1, 4), a_ratio |-> 3],
     [fiber |-> FiberA, v_frac |-> 0, a_ratio |-> 2],
     [fiber |-> FiberA, v_frac |-> Rat(1, 4), a_ratio |-> 1],
     [fiber |-> FiberC, v_frac |-> Rat(1, 4), a_ratio |-> 2],
     [fiber |-> FiberD, v_frac |-> Rat(1, 2), a_ratio |-> 2]}

\* The longest list of constituents.
MaxN == 2

InclusionLists == UNION {[1..n -> Inclusions] : n \in 0..MaxN}

\* The list xs without its last element (xs itself when empty).
DropLast(xs) == IF xs = <<>> THEN xs ELSE SubSeq(xs, 1, Len(xs) - 1)

\* ------------------------------------------------------ state machine
\* args  the arguments of the constructor call
\* obj   the instance as the call's __init__ left it (its fields st, isList,
\*       err and log are the model's: scalar type, type(fiber) == list, and
\*       the outcome below)
\* err   "none" when the call returned the instance to its caller, else the
\*       exception that reached the caller (who then holds no instance)
\* log   the inversions and Eshelby computations the call made, in order
\* conv  a value under conversion between the two notations (see below)
\* ret   the last call made besides the constructor and what it returned
\* heap  the arrays that several holders refer to, by identity (see below)
\* thr   the constructor calls under way side by side (see below)
VARIABLES args, obj, err, log, conv, ret, heap, thr

vars == <<args, obj, err, log, conv, ret, heap, thr>>

NoCall == [op |-> "none"]

Init ==
    /\ args = NoCall
    /\ obj = NoCall
    /\ err = "none"
    /\ log = <<>>
    /\ conv = NoCall
    /\ ret = NoCall
    /\ heap = NoCall
    /\ thr = NoCall

\* The caller hands matrix, fiber, v_frac and a_ratio to the constructor.  The
\* constructor reads nothing but its arguments, so calls do not affect each
\* other and a behaviour follows one of them.
Call(matrix, fiber, v_frac, a_ratio, isList, st) ==
    /\ args = NoCall
    /\ args' = [op |-> "MoriTanaka", matrix |-> matrix, fiber |-> fiber,
                v_frac |-> v_frac, a_ratio |-> a_ratio, isList |-> isList,
                st |-> st]
    /\ UNCHANGED <<obj, err, log, conv, ret, heap, thr>>

\* A call with a single fiber material.
CallSingle ==
    \E matrix \in Matrices, fiber \in Fibers, v_frac \in VolumeFractions,
       a_ratio \in AspectRatios, st \in ScalarTypes :
        Call(matrix, fiber, v_frac, a_ratio, FALSE, st)

\* A call with lists; short names the list that is one element short of the
\* others, if any.
CallMulti ==
    \E matrix \in Matrices, incl \in InclusionLists, st \in ScalarTypes,
       short \in {"none", "v_frac", "a_ratio"} :
        LET fiber == [i \in 1..Len(incl) |-> incl[i].fiber]
            v_all == [i \in 1..Len(incl) |-> incl[i].v_frac]
            a_all == [i \in 1..Len(incl) |-> incl[i].a_ratio]
        IN  /\ short # "none" => incl # <<>>
            /\ Call(matrix, fiber,
                    IF short = "v_frac" THEN DropLast(v_all) ELSE v_all,
                    IF short = "a_ratio" THEN DropLast(a_all) ELSE a_all,
                    TRUE, st)

\* __init__ runs on the arguments, from its first line to its return or to
\* the exception that ends it.
Construct ==
    /\ args # NoCall
    /\ obj = NoCall
    /\ \E m \in {MoriTanaka(args.matrix, args.fiber, args.v_frac, args.a_ratio,
                            args.isList, args.st)} :
          /\ obj' = m
          /\ err' = m.err
          /\ log' = m.log
    /\ UNCHANGED <<args, conv, ret, heap, thr>>

Next == CallSingle \/ CallMulti \/ Construct

Spec == Init /\ [][Next]_vars

\* ------------------------------------------ conversions of notation
\* The tests of test_tensor.py draw a random array, convert it and convert it
\* back.  conv holds the array drawn (orig, in notation from), the array the
\* conversions so far made of it (val) and their number (n).

\* The largest seed of a drawn array.
MaxSeed == 20

\* The most conversions applied to one array.
MaxConversions == 2

\* Arrays drawn: entries are polynomials of the seed and the indices, none
\* zero.  "complete" has both minor symmetries and major symmetry, "minor"
\* both minor symmetries only, "none" no symmetry.
DrawTensor(kind, s) ==
    Ten4(LAMBDA i, j, k, l :
        LET m == VoigtIndex(i, j)
            n == VoigtIndex(k, l)
        IN  CASE kind = "complete" -> Num(s * m * n + 3 * (m + n) + s * s)
              [] kind = "minor" -> Num(s * m + 5 * n * n + m * n + 1)
              [] OTHER -> Num(27 * i + 9 * j + 3 * k + l + s))

\* 1/2 (A + A^T) of a drawn matrix for "sym", the drawn matrix for "none".
DrawMatrix(kind, s) ==
    Mat6(LAMBDA i, j :
        IF kind = "sym" THEN Mul(Rat(1, 2), Num(s * (i + j) + 7 * i * j + 1))
        ELSE Num(s * i + 7 * j + 1))

InitTensor ==
    /\ args = NoCall
    /\ obj = NoCall
    /\ err = "none"
    /\ log = <<>>
    /\ ret = NoCall
    /\ heap = NoCall
    /\ thr = NoCall
    /\ \E s \in 1..MaxSeed :
          \/ \E kind \in {"complete", "minor", "none"} :
                conv = [from |-> "3333", kind |-> kind, orig |-> DrawTensor(kind, s),
                        form |-> "3333", val |-> DrawTensor(kind, s), n |-> 0]
          \/ \E kind \in {"sym", "none"} :
                conv = [from |-> "66", kind |-> kind, orig |-> DrawMatrix(kind, s),
                        form |-> "66", val |-> DrawMatrix(kind, s), n |-> 0]

\* val = Tensor().tensor2mandel(val)
Tensor2Mandel ==
    /\ conv.form = "3333"
    /\ conv.n < MaxConversions
    /\ conv' = [conv EXCEPT !.form = "66", !.val = tensor2mandel(conv.val),
                            !.n = @ + 1]
    /\ UNCHANGED <<args, obj, err, log, ret, heap, thr>>

\* val = Tensor().mandel2tensor(val)
Mandel2Tensor ==
    /\ conv.form = "66"
    /\ conv.n < MaxConversions
    /\ conv' = [conv EXCEPT !.form = "3333", !.val = mandel2tensor(conv.val),
                            !.n = @ + 1]
    /\ UNCHANGED <<args, obj, err, log, ret, heap, thr>>

NextTensor == Tensor2Mandel \/ Mandel2Tensor

SpecTensor == InitTensor /\ [][NextTensor]_vars

\* The reference conversion of test_compare_with_mechkit: entry (m, n) is
\* B_m : T : B_n for the orthonormal basis B_1..B_6 of symmetric 3x3 arrays,
\* B_m = e_p (x) e_p for a normal pair (p, p) and
\* B_m = (e_p (x) e_q + e_q (x) e_p) / sqrt(2) for a shear pair (p, q).
to_mandel6(T) ==
    Mat6(LAMBDA m, n :
        LET p == VoigtPairs[m]
            q == VoigtPairs[n]
            bm == IF m <= 3 THEN Rat(1, 2) ELSE Recip(Sqrt2)
            bn == IF n <= 3 THEN Rat(1, 2) ELSE Recip(Sqrt2)
        IN  Mul(Mul(bm, bn),
                Add(Add(T[p[1]][p[2]][q[1]][q[2]], T[p[2]][p[1]][q[1]][q[2]]),
                    Add(T[p[1]][p[2]][q[2]][q[1]], T[p[2]][p[1]][q[2]][q[1]]))))

\* ------------------------------------------------------------ C8
\* C8: for every 3x3x3x3 array T with both minor symmetries and major
\* symmetry, mandel2tensor(tensor2mandel(T)) = T.
C8_TensorRoundTrip ==
    (/\ conv # NoCall
     /\ conv.from = "3333"
     /\ conv.n = 2
     /\ LeftMinorSym(conv.orig) /\ RightMinorSym(conv.orig) /\ MajorSym(conv.orig))
    => conv.val = conv.orig

\* A symmetric array with a non-zero normal-shear and a non-zero shear-shear
\* component has gone to the reduced notation and back.
C8_Witness ==
    /\ conv # NoCall
    /\ conv.from = "3333" /\ conv.n = 2 /\ conv.form = "3333"
    /\ LeftMinorSym(conv.orig) /\ RightMinorSym(conv.orig) /\ MajorSym(conv.orig)
    /\ conv.orig[1][1][1][2] # 0 /\ conv.orig[2][3][1][3] # 0
    /\ conv.val = conv.orig

\* ------------------------------------------------------------ C9
\* C9: for every symmetric 6x6 array M, tensor2mandel(mandel2tensor(M)) = M.
C9_MandelRoundTrip ==
    (/\ conv # NoCall
     /\ conv.from = "66"
     /\ conv.n = 2
     /\ IsSymmetric66(conv.orig))
    => conv.val = conv.orig

\* A symmetric matrix with non-zero normal-shear and shear-shear entries has
\* gone to the full notation and back.
C9_Witness ==
    /\ conv # NoCall
    /\ conv.from = "66" /\ conv.n = 2 /\ conv.form = "66"
    /\ IsSymmetric66(conv.orig)
    /\ conv.orig[1][6] # 0 /\ conv.orig[4][5] # 0
    /\ conv.val = conv.orig

\* ------------------------------------------------------------ C10
\* C10: for every 3x3x3x3 array with both minor symmetries, with or without
\* major symmetry, tensor2mandel (index pairs in the order 11, 22, 33, 23, 13,
\* 12; normal-normal entries times 1, normal-shear times sqrt(2), shear-shear
\* times 2) gives what the reference conversion to_mandel6 gives.
C10_AgreesWithReference ==
    (/\ conv # NoCall
     /\ conv.from = "3333"
     /\ conv.n = 1
     /\ LeftMinorSym(conv.orig) /\ RightMinorSym(conv.orig))
    => /\ conv.val = to_mandel6(conv.orig)
       /\ conv.val[1][2] = conv.orig[1][1][2][2]
       /\ conv.val[1][4] = Mul(Sqrt2, conv.orig[1][1][2][3])
       /\ conv.val[5][6] = Mul(2, conv.orig[1][3][1][2])

\* An array with both minor symmetries and without major symmetry has been
\* converted, and the result is the reference's.
C10_Witness ==
    /\ conv # NoCall
    /\ conv.from = "3333" /\ conv.n = 1 /\ conv.form = "66"
    /\ LeftMinorSym(conv.orig) /\ RightMinorSym(conv.orig) /\ ~MajorSym(conv.orig)
    /\ conv.val = to_mandel6(conv.orig)
    /\ conv.val[4][5] # conv.val[5][4]

\* ----------------------------------------------- double contraction
\* The scalar double contraction A : B of two 3x3x3x3 arrays, the sum over
\* i, j, k, l of A_ijkl * B_ijkl, and the inner product of two 6x6 arrays, the
\* sum over m, n of M_mn * N_mn.  The q-th term of either sum is indexed by
\* the digits of q - 1.
RECURSIVE SumTerms(_, _, _)
\* v[lo] + ... + v[hi]
SumTerms(v, lo, hi) ==
    IF lo > hi THEN 0
    ELSE IF lo = hi THEN v[lo]
    ELSE Add(SumTerms(v, lo, (lo + hi) \div 2),
             SumTerms(v, ((lo + hi) \div 2) + 1, hi))

RECURSIVE SumInts(_, _, _)
\* v[lo] + ... + v[hi] for integers.
SumInts(v, lo, hi) ==
    IF lo > hi THEN 0
    ELSE IF lo = hi THEN v[lo]
    ELSE SumInts(v, lo, (lo + hi) \div 2) + SumInts(v, ((lo + hi) \div 2) + 1, hi)

FullContraction(A, B) ==
    With2(A, B, LAMBDA X, Y :
        With1([q \in 1..81 |->
            LET i == ((q - 1) \div 27) + 1
                j == (((q - 1) \div 9) % 3) + 1
                k == (((q - 1) \div 3) % 3) + 1
                l == ((q - 1) % 3) + 1
            IN  Mul(X[i][j][k][l], Y[i][j][k][l])],
              LAMBDA v : SumTerms(v, 1, 81)))

MandelInner(M, N) ==
    With2(M, N, LAMBDA X, Y :
        With1([q \in 1..36 |->
            LET m == ((q - 1) \div 6) + 1
                n == ((q - 1) % 6) + 1
            IN  Mul(X[m][n], Y[m][n])],
              LAMBDA v : SumTerms(v, 1, 36)))

\* The largest seed of an array of a pair.
MaxPairSeed == 6

\* Two arrays of one kind are drawn; ret holds them, their double contraction
\* in full form (full) and the inner product of their reduced forms
\* (reduced), and which of the two have been computed (have).
InitContraction ==
    /\ args = NoCall
    /\ obj = NoCall
    /\ err = "none"
    /\ log = <<>>
    /\ conv = NoCall
    /\ heap = NoCall
    /\ thr = NoCall
    /\ \E kind \in {"complete", "minor", "none"}, s \in 1..MaxPairSeed,
          t \in 1..MaxPairSeed :
          ret = [op |-> "contraction", kind |-> kind,
                 A |-> DrawTensor(kind, s), B |-> DrawTensor(kind, t + MaxPairSeed),
                 full |-> 0, reduced |-> 0, have |-> {}]

\* A : B in full form.
ContractFull ==
    /\ "full" \notin ret.have
    /\ ret' = [ret EXCEPT !.full = FullContraction(ret.A, ret.B),
                          !.have = @ \cup {"full"}]
    /\ UNCHANGED <<args, obj, err, log, conv, heap, thr>>

\* The inner product of tensor2mandel(A) and tensor2mandel(B).
ContractReduced ==
    /\ "reduced" \notin ret.have
    /\ ret' = [ret EXCEPT !.reduced =
                   MandelInner(tensor2mandel(ret.A), tensor2mandel(ret.B)),
                          !.have = @ \cup {"reduced"}]
    /\ UNCHANGED <<args, obj, err, log, conv, heap, thr>>

NextContraction == ContractFull \/ ContractReduced

SpecContraction == InitContraction /\ [][NextContraction]_vars

\* ------------------------------------------------------------ C11
\* C11: for all 3x3x3x3 arrays A and B with both minor symmetries and major
\* symmetry, the double contraction A : B equals the inner product of
\* tensor2mandel(A) and tensor2mandel(B).
C11_ContractionPreserved ==
    (/\ ret.have = {"full", "reduced"}
     /\ LeftMinorSym(ret.A) /\ RightMinorSym(ret.A) /\ MajorSym(ret.A)
     /\ LeftMinorSym(ret.B) /\ RightMinorSym(ret.B) /\ MajorSym(ret.B))
    => ret.full = ret.reduced

\* Both sums have been computed for two different symmetric arrays with
\* non-zero normal-shear and shear-shear components, and they are one non-zero
\* number.
C11_Witness ==
    /\ ret.have = {"full", "reduced"}
    /\ LeftMinorSym(ret.A) /\ RightMinorSym(ret.A) /\ MajorSym(ret.A)
    /\ LeftMinorSym(ret.B) /\ RightMinorSym(ret.B) /\ MajorSym(ret.B)
    /\ ret.A # ret.B
    /\ ret.A[1][1][1][2] # 0 /\ ret.B[2][3][1][3] # 0
    /\ ret.full = ret.reduced /\ ret.full # 0

\* Without the minor symmetries the two sums differ.
C11_SeenUnequal ==
    /\ ret.have = {"full", "reduced"}
    /\ ~LeftMinorSym(ret.A)
    /\ ret.full # ret.reduced

\* ------------------------------ MoriTanaka.get_orientation_average
\* Arithmetic on 3x3x3x3 arrays (ndarray + and scalar *).
TenAdd(A, B) ==
    With2(A, B, LAMBDA X, Y :
        Ten4(LAMBDA i, j, k, l : Add(X[i][j][k][l], Y[i][j][k][l])))
TenScale(c, A) ==
    With2(c, A, LAMBDA x, X : Ten4(LAMBDA i, j, k, l : Mul(x, X[i][j][k][l])))

\* np.eye(3)
eye3 == Tup3(LAMBDA i : Tup3(LAMBDA j : IF i = j THEN 1 ELSE 0))

\* np.einsum of two 3x3 arrays P and Q, one operator per subscript string of
\* lines 294-309.  The entry of the result at position (a, b, c, d):
\* "ij,kl->ijkl": P[i,j]*Q[k,l] at (i,j,k,l)
einsum_ij_kl_ijkl(P, Q) ==
    With2(P, Q, LAMBDA X, Y : Ten4(LAMBDA a, b, c, d : Mul(X[a][b], Y[c][d])))
\* "ik,lj->ijkl": P[i,k]*Q[l,j] at (i,j,k,l)
einsum_ik_lj_ijkl(P, Q) ==
    With2(P, Q, LAMBDA X, Y : Ten4(LAMBDA a, b, c, d : Mul(X[a][c], Y[d][b])))
\* "ik,lj->ijlk": P[i,k]*Q[l,j] at (i,j,l,k)
einsum_ik_lj_ijlk(P, Q) ==
    With2(P, Q, LAMBDA X, Y : Ten4(LAMBDA a, b, c, d : Mul(X[a][d], Y[c][b])))
\* "ik,lj->klij": P[i,k]*Q[l,j] at (k,l,i,j)
einsum_ik_lj_klij(P, Q) ==
    With2(P, Q, LAMBDA X, Y : Ten4(LAMBDA a, b, c, d : Mul(X[c][a], Y[b][d])))

\* Lines 278-287 with b3 = C1212 + 1/2 (C2222 - C2233).
CoefficientsB3Sign(tensor) ==
    With1(tensor, LAMBDA T :
        <<Sub(Sub(Add(T[1][1][1][1], T[2][2][2][2]), Mul(2, T[1][1][2][2])),
              Mul(4, T[1][2][1][2])),
          Sub(T[1][1][2][2], T[2][2][3][3]),
          Add(T[1][2][1][2], Mul(Rat(1, 2), Sub(T[2][2][2][2], T[2][2][3][3]))),
          T[2][2][3][3],
          Mul(Rat(1, 2), Sub(T[2][2][2][2], T[2][2][3][3]))>>)

\* Lines 278-287: <<b1, b2, b3, b4, b5>>.
Coefficients(tensor) ==
    With1(tensor, LAMBDA T :
        <<Sub(Sub(Add(T[1][1][1][1], T[2][2][2][2]), Mul(2, T[1][1][2][2])),
              Mul(4, T[1][2][1][2])),
          Sub(T[1][1][2][2], T[2][2][3][3]),
          Add(T[1][2][1][2], Mul(Rat(1, 2), Sub(T[2][2][3][3], T[2][2][2][2]))),
          T[2][2][3][3],
          Mul(Rat(1, 2), Sub(T[2][2][2][2], T[2][2][3][3]))>>)

\* Line 294: the arrays b2 multiplies.
TermB2(N2) ==
    TenAdd(einsum_ij_kl_ijkl(N2, eye3), einsum_ij_kl_ijkl(eye3, N2))

\* Lines 297-300 with the fourth array a second copy of the third.
TermB3Repeated(N2) ==
    TenAdd(TenAdd(einsum_ik_lj_ijkl(N2, eye3), einsum_ik_lj_ijlk(N2, eye3)),
           TenAdd(einsum_ik_lj_klij(eye3, N2), einsum_ik_lj_klij(eye3, N2)))

\* Lines 297-300: the arrays b3 multiplies.
TermB3(N2) ==
    TenAdd(TenAdd(einsum_ik_lj_ijkl(N2, eye3), einsum_ik_lj_ijlk(N2, eye3)),
           TenAdd(einsum_ik_lj_klij(eye3, N2), einsum_ik_lj_ijlk(eye3, N2)))

\* Line 302: the array b4 multiplies.
TermB4 == einsum_ij_kl_ijkl(eye3, eye3)

\* Lines 308-309 without the second array.
TermB5Single == einsum_ik_lj_ijkl(eye3, eye3)

\* Lines 308-309: the arrays 2 * b5 * 1 / 2 multiplies.
TermB5 ==
    TenAdd(einsum_ik_lj_ijkl(eye3, eye3), einsum_ik_lj_ijlk(eye3, eye3))

\* An array handed over with its shape: [shape |-> "3333" or "66", val |-> ..].
Shaped(shape, val) == [shape |-> shape, val |-> val]

\* get_orientation_average(tensor, N2, N4): tensor and N2 are arrays, N4 is an
\* array with its shape.
get_orientation_average(tensor, N2, N4) ==
    With2(IF N4.shape = "66" THEN mandel2tensor(N4.val) ELSE N4.val,
          Coefficients(tensor), LAMBDA N4full, b :
        TenAdd(TenAdd(TenAdd(TenAdd(TenScale(b[1], N4full),
                                    TenScale(b[2], TermB2(N2))),
                             TenScale(b[3], TermB3(N2))),
                      TenScale(b[4], TermB4)),
               TenScale(Div(Mul(Mul(2, b[5]), 1), 2), TermB5)))

\* Inputs of get_orientation_average.
\* A stiffness that is transversely isotropic about e1, from its five
\* constants: C1111 = c[1], C2222 = C3333 = c[2], C1122 = C1133 = c[3],
\* C2233 = c[4], C1212 = C1313 = c[5], C2323 = 1/2 (C2222 - C2233), with both
\* minor symmetries and major symmetry.
TransverselyIsotropic(c) ==
    Ten4(LAMBDA i, j, k, l :
        LET mn == <<VoigtIndex(i, j), VoigtIndex(k, l)>>
        IN  CASE mn = <<1, 1>> -> c[1]
              [] mn \in {<<2, 2>>, <<3, 3>>} -> c[2]
              [] mn \in {<<1, 2>>, <<2, 1>>, <<1, 3>>, <<3, 1>>} -> c[3]
              [] mn \in {<<2, 3>>, <<3, 2>>} -> c[4]
              [] mn \in {<<5, 5>>, <<6, 6>>} -> c[5]
              [] mn = <<4, 4>> -> Mul(Rat(1, 2), Sub(c[2], c[4]))
              [] OTHER -> 0)

\* The largest seed of a stiffness handed to get_orientation_average.
MaxStiffSeed == 3

\* The arrays handed over as tensor: transversely isotropic ones and arrays
\* with fewer symmetries.
DrawStiffness(kind, s) ==
    IF kind = "ti"
    THEN TransverselyIsotropic(<<Num(20 + 7 * s), Num(9 + s * s), Num(3 + s),
                                 Num(2 * s + 1), Num(4 + 3 * s)>>)
    ELSE DrawTensor(kind, s)

\* Unit vectors with rational components.
Directions ==
    <<<<1, 0, 0>>, <<0, 1, 0>>, <<0, 0, 1>>,
      <<Rat(3, 5), Rat(4, 5), 0>>, <<Rat(2, 3), Rat(2, 3), Rat(1, 3)>>>>

\* An orientation state of finitely many fiber directions: a sequence of
\* [w |-> weight, n |-> direction] with weights adding up to 1.
OrientationStates ==
    [aligned |-> <<[w |-> 1, n |-> Directions[1]]>>,
     planar |-> <<[w |-> Rat(1, 2), n |-> Directions[1]],
                  [w |-> Rat(1, 2), n |-> Directions[2]]>>,
     tilted |-> <<[w |-> Rat(1, 2), n |-> Directions[4]],
                  [w |-> Rat(1, 2), n |-> Directions[5]]>>]

\* The orientation tensors of 2nd and 4th order of a state, its moments
\* sum w n(x)n and sum w n(x)n(x)n(x)n.
Moment2(state) ==
    Tup3(LAMBDA i : Tup3(LAMBDA j :
        SumSeq([p \in 1..Len(state) |->
                   Mul(state[p].w, Mul(state[p].n[i], state[p].n[j]))])))
Moment4(state) ==
    Ten4(LAMBDA i, j, k, l :
        SumSeq([p \in 1..Len(state) |->
                   Mul(state[p].w, Mul(Mul(state[p].n[i], state[p].n[j]),
                                       Mul(state[p].n[k], state[p].n[l])))]))

\* The 2nd-order tensors handed over as N2: of a state of directions, of the
\* isotropic state (I/3), and a 3x3 array that is not symmetric.
DrawN2(kind) ==
    CASE kind = "isotropic" -> Tup3(LAMBDA i : Tup3(LAMBDA j :
                                   IF i = j THEN Rat(1, 3) ELSE 0))
      [] kind = "unsymmetric" -> Tup3(LAMBDA i : Tup3(LAMBDA j : Num(3 * i + j)))
      [] OTHER -> Moment2(OrientationStates[kind])

\* The 4th-order tensors handed over as N4, in full form: of a state of
\* directions, of the isotropic state, and an array with the minor symmetries
\* only.
DrawN4(kind) ==
    CASE kind = "isotropic" ->
             Ten4(LAMBDA i, j, k, l :
                 Mul(Rat(1, 15),
                     Add(Add(Mul(eye3[i][j], eye3[k][l]), Mul(eye3[i][k], eye3[j][l])),
                         Mul(eye3[i][l], eye3[j][k]))))
      [] kind = "unsymmetric" -> DrawTensor("minor", 1)
      [] OTHER -> Moment4(OrientationStates[kind])

OrientationKinds == {"aligned", "planar", "tilted", "isotropic", "unsymmetric"}

\* The arguments N2 and N4 of each kind, N4 in full and in reduced form.
OrientationTensors ==
    [kind \in OrientationKinds |->
        With1(DrawN4(kind), LAMBDA N4 :
            [N2 |-> DrawN2(kind),
             N4 |-> [shape \in {"3333", "66"} |->
                        Shaped(shape, IF shape = "66" THEN tensor2mandel(N4)
                                      ELSE N4)]])]

\* A call of the static method is drawn: ret holds its arguments (kinds and
\* arrays; N4 with its shape), and its return value once it has returned.
InitAverage ==
    /\ args = NoCall
    /\ obj = NoCall
    /\ err = "none"
    /\ log = <<>>
    /\ conv = NoCall
    /\ heap = NoCall
    /\ thr = NoCall
    /\ \E kind \in {"ti", "complete", "minor", "none"}, s \in 1..MaxStiffSeed,
          k2 \in OrientationKinds, k4 \in OrientationKinds,
          shape \in {"3333", "66"} :
          ret = [op |-> "get_orientation_average",
                 kind |-> kind, k2 |-> k2, k4 |-> k4,
                 tensor |-> DrawStiffness(kind, s),
                 N2 |-> OrientationTensors[k2].N2,
                 N4 |-> OrientationTensors[k4].N4[shape],
                 returned |-> FALSE, value |-> <<>>]

\* MoriTanaka.get_orientation_average(tensor, N2, N4)
OrientationAverage ==
    /\ ~ret.returned
    /\ ret' = [ret EXCEPT !.returned = TRUE,
                          !.value = get_orientation_average(ret.tensor, ret.N2,
                                                            ret.N4)]
    /\ UNCHANGED <<args, obj, err, log, conv, heap, thr>>

NextAverage == OrientationAverage

SpecAverage == InitAverage /\ [][NextAverage]_vars

\* The array is symmetric / has every index symmetry.
IsSymmetric33(N) == \A i, j \in Idx3 : N[i][j] = N[j][i]
FullySymmetric(T) ==
    /\ LeftMinorSym(T) /\ RightMinorSym(T) /\ MajorSym(T)
    /\ \A i, j, k, l \in Idx3 : T[i][j][k][l] = T[i][k][j][l]

\* The full form of the N4 handed over.
FullN4 == IF ret.N4.shape = "66" THEN mandel2tensor(ret.N4.val) ELSE ret.N4.val

\* tensor is transversely isotropic about e1.
IsTransverselyIsotropic(C) ==
    /\ LeftMinorSym(C) /\ RightMinorSym(C) /\ MajorSym(C)
    /\ C = TransverselyIsotropic(<<C[1][1][1][1], C[2][2][2][2], C[1][1][2][2],
                                   C[2][2][3][3], C[1][2][1][2]>>)

\* ------------------------------------------------------------ C12
\* C12: for every stiffness C that is transversely isotropic about e1,
\* get_orientation_average(C, N2, N4) with N2 = diag(1, 0, 0) and N4 with the
\* single non-zero entry N4[1111] = 1 returns C, in every component.
C12_AlignedReproduces ==
    (/\ ret.returned
     /\ IsTransverselyIsotropic(ret.tensor)
     /\ ret.N2 = <<<<1, 0, 0>>, <<0, 0, 0>>, <<0, 0, 0>>>>
     /\ FullN4 = Ten4(LAMBDA i, j, k, l :
                      IF <<i, j, k, l>> = <<1, 1, 1, 1>> THEN 1 ELSE 0))
    => ret.value = ret.tensor

\* The average of a transversely isotropic stiffness (C1111 # C2222, shear
\* constants non-zero) over the aligned state, N4 handed over in full form,
\* has returned the stiffness.
C12_Witness ==
    /\ ret.returned
    /\ ret.kind = "ti" /\ ret.k2 = "aligned" /\ ret.k4 = "aligned"
    /\ ret.N4.shape = "3333"
    /\ ret.N4.val[1][1][1][1] = 1
    /\ ret.tensor[1][1][1][1] # ret.tensor[2][2][2][2]
    /\ ret.tensor[1][2][1][2] # 0 /\ ret.tensor[2][3][2][3] # 0
    /\ ret.value = ret.tensor

\* ------------------------------------------------------------ C13
\* The array has the form lam d_ij d_kl + mu (d_ik d_jl + d_il d_jk).
IsIsotropic(T) ==
    LET lam == T[1][1][2][2]
        mu == T[1][2][1][2]
    IN  T = Ten4(LAMBDA i, j, k, l :
                Add(Mul(lam, Mul(eye3[i][j], eye3[k][l])),
                    Mul(mu, Add(Mul(eye3[i][k], eye3[j][l]),
                                Mul(eye3[i][l], eye3[j][k])))))

\* C13: for every stiffness C that is transversely isotropic about e1,
\* get_orientation_average(C, N2, N4) with N2 = I/3 and
\* N4_ijkl = (d_ij d_kl + d_ik d_jl + d_il d_jk)/15 returns an isotropic
\* array lam d_ij d_kl + mu (d_ik d_jl + d_il d_jk); so out1111 = out2222 =
\* out3333 and out1111 - out1122 = 2 out1212.
C13_IsotropicAverage ==
    (/\ ret.returned
     /\ IsTransverselyIsotropic(ret.tensor)
     /\ ret.N2 = DrawN2("isotropic")
     /\ FullN4 = DrawN4("isotropic"))
    => /\ IsIsotropic(ret.value)
       /\ ret.value[1][1][1][1] = ret.value[2][2][2][2]
       /\ ret.value[2][2][2][2] = ret.value[3][3][3][3]
       /\ Sub(ret.value[1][1][1][1], ret.value[1][1][2][2])
              = Mul(2, ret.value[1][2][1][2])

\* The average of a transversely isotropic, not isotropic stiffness over the
\* isotropic state has returned an isotropic array with non-zero constants.
C13_Witness ==
    /\ ret.returned
    /\ ret.kind = "ti" /\ ret.k2 = "isotropic" /\ ret.k4 = "isotropic"
    /\ ~IsIsotropic(ret.tensor)
    /\ IsIsotropic(ret.value)
    /\ ret.value[1][1][2][2] # 0 /\ ret.value[1][2][1][2] # 0

\* ------------------------------------------------------------ C14
\* The array the formula of Advani and Tucker gives, entry by entry, with the
\* b3 contribution N2_ik d_jl + N2_il d_jk + d_ik N2_jl + d_il N2_jk and the b5
\* contribution b5 (d_ik d_jl + d_il d_jk).
AdvaniTucker(b, N2, N4) ==
    Ten4(LAMBDA i, j, k, l :
        Add(Add(Add(Add(Mul(b[1], N4[i][j][k][l]),
                        Mul(b[2], Add(Mul(N2[i][j], eye3[k][l]),
                                      Mul(eye3[i][j], N2[k][l])))),
                    Mul(b[3], Add(Add(Mul(N2[i][k], eye3[j][l]),
                                      Mul(N2[i][l], eye3[j][k])),
                                  Add(Mul(eye3[i][k], N2[j][l]),
                                      Mul(eye3[i][l], N2[j][k]))))),
                Mul(b[4], Mul(eye3[i][j], eye3[k][l]))),
            Mul(b[5], Add(Mul(eye3[i][k], eye3[j][l]),
                          Mul(eye3[i][l], eye3[j][k])))))

\* C14: for every input tensor, every symmetric N2 and every fully symmetric
\* N4, the array get_orientation_average returns has left-minor, right-minor
\* and major symmetry, and it is the array of the formula, whose b3
\* contribution is N2_ik d_jl + N2_il d_jk + d_ik N2_jl + d_il N2_jk and whose
\* b5 contribution is b5 (d_ik d_jl + d_il d_jk).
C14_AverageSymmetric ==
    (/\ ret.returned
     /\ IsSymmetric33(ret.N2)
     /\ FullySymmetric(FullN4))
    => /\ LeftMinorSym(ret.value)
       /\ RightMinorSym(ret.value)
       /\ MajorSym(ret.value)
       /\ ret.value = AdvaniTucker(Coefficients(ret.tensor), ret.N2, FullN4)

\* The average of an array without any symmetry over a state of two tilted
\* directions (N2 not diagonal) has returned; b3 and b5 are not zero.
C14_Witness ==
    /\ ret.returned
    /\ ret.kind = "none" /\ ret.k2 = "tilted" /\ ret.k4 = "tilted"
    /\ ret.N2[1][2] # 0
    /\ Coefficients(ret.tensor)[3] # 0 /\ Coefficients(ret.tensor)[5] # 0
    /\ LeftMinorSym(ret.value) /\ RightMinorSym(ret.value) /\ MajorSym(ret.value)
    /\ ret.value[1][2][1][2] # 0

\* ------------------------------- MoriTanaka.get_average_stiffness
\* Lines 248-256 with return_dim ignored: the reduced form in every case.
get_average_stiffnessReduced(self, N2, N4, return_dim) ==
    With1(IF N4.shape = "66" THEN Shaped("3333", mandel2tensor(N4.val)) ELSE N4,
          LAMBDA N4full :
        tensor2mandel(get_orientation_average(self.effective_stiffness3333,
                                              N2, N4full)))

\* get_average_stiffness(N2, N4, return_dim): the array returned.
get_average_stiffness(self, N2, N4, return_dim) ==
    With1(IF N4.shape = "66" THEN Shaped("3333", mandel2tensor(N4.val)) ELSE N4,
          LAMBDA N4full :
    With1(get_orientation_average(self.effective_stiffness3333, N2, N4full),
          LAMBDA C_eff_ave :
        IF return_dim = "66" THEN tensor2mandel(C_eff_ave) ELSE C_eff_ave))

\* ---------------------------------------- MoriTanaka.is_symmetric
\* np.einsum("ijkl->jikl", T), ("ijkl->ijlk", T), ("ijkl->klij", T)
einsum_ijkl_jikl(T) == With1(T, LAMBDA X : Ten4(LAMBDA a, b, c, d : X[b][a][c][d]))
einsum_ijkl_ijlk(T) == With1(T, LAMBDA X : Ten4(LAMBDA a, b, c, d : X[a][b][d][c]))
einsum_ijkl_klij(T) == With1(T, LAMBDA X : Ten4(LAMBDA a, b, c, d : X[c][d][a][b]))

\* Magnitudes.  The numbers of the field carry no order, so for a stiffness
\* in them the norm of a difference is known to be 0 (equal arrays), NaN, or
\* some positive number.  Where the norm itself matters a stiffness is held
\* in fixed point: its entries are whole multiples of 1e-4 (or NaN), and the
\* square of a norm is a whole multiple of 1e-8.
NumberKinds == {"field", "fixed"}

\* The tolerance 1e-3 of lines 329, 338 and 347, in multiples of 1e-4.
Tolerance == 10

HasNaN4(T) == \E X \in {T} : \E i, j, k, l \in Idx3 : IsNaN(X[i][j][k][l])

\* The square of np.linalg.norm(T - U) for fixed-point arrays without NaN.
NormSq(T, U) ==
    With2(T, U, LAMBDA X, Y :
        With1([q \in 1..81 |->
            LET i == ((q - 1) \div 27) + 1
                j == (((q - 1) \div 9) % 3) + 1
                k == (((q - 1) \div 3) % 3) + 1
                l == ((q - 1) % 3) + 1
            IN  (X[i][j][k][l] - Y[i][j][k][l]) * (X[i][j][k][l] - Y[i][j][k][l])],
              LAMBDA v : SumInts(v, 1, 81)))

\* Lines 329, 338 and 347 with <= in place of <.
NormBelowOrAt(T, U, numbers) ==
    IF HasNaN4(T) \/ HasNaN4(U) THEN {FALSE}
    ELSE IF T = U THEN {TRUE}
    ELSE IF numbers = "fixed" THEN {NormSq(T, U) <= Tolerance * Tolerance}
    ELSE {TRUE, FALSE}

\* np.linalg.norm(T - U) < 1e-3: the truth values the comparison can have.  A
\* NaN in the difference makes the norm NaN, and NaN < 1e-3 is False.
NormBelow(T, U, numbers) ==
    IF HasNaN4(T) \/ HasNaN4(U) THEN {FALSE}
    ELSE IF T = U THEN {TRUE}
    ELSE IF numbers = "fixed" THEN {NormSq(T, U) < Tolerance * Tolerance}
    ELSE {TRUE, FALSE}

\* The residual lines 335, 344 and 353 print: the norm (its square, in fixed
\* point), NaN, or, in the field, a positive number not known further.
Residual(T, U, numbers) ==
    IF HasNaN4(T) \/ HasNaN4(U) THEN NaN
    ELSE IF numbers = "fixed" THEN NormSq(T, U)
    ELSE "positive"

\* One of the three if/else of lines 329-355: what it can print for the stored
\* array X and its transpose Y.
SymmetryLines(name, X, Y, numbers) ==
    {IF below THEN [symmetry |-> name, verdict |-> "passed"]
     ELSE [symmetry |-> name, verdict |-> "failed",
           res |-> Residual(X, Y, numbers)] : below \in NormBelow(X, Y, numbers)}

\* is_symmetric(): the reports it can print for the stored array T, each three
\* lines, for left minor, right minor and major symmetry.  It returns None and
\* raises nothing.
is_symmetric(T, numbers) ==
    With1(T, LAMBDA X :
        {<<l, r, m>> :
             l \in SymmetryLines("Left minor", X, einsum_ijkl_jikl(X), numbers),
             r \in SymmetryLines("Right minor", X, einsum_ijkl_ijlk(X), numbers),
             m \in SymmetryLines("Major", X, einsum_ijkl_klij(X), numbers)})

\* ------------------------------------------- calls on an instance
\* After construction the caller holds the instance and calls its methods.
\* obj is the instance as __init__ left it.  Its arrays are objects other
\* holders can refer to, so they live in heap, a record of
\*   Cm                        the array matrix.stiffness66, which line 73
\*                             binds to self.Cm (no copy is made)
\*   effective_stiffness66     the array line 109 stored
\*   effective_stiffness3333   the array line 110 stored
\*   returned                  the array the last call made and returned
\*   numbers                   how the arrays' entries are held (NumberKinds)
\* ret is the last call: op, its arguments, n (the calls made so far), ref
\* (the heap array it returned, "none" for None) and written (the caller has
\* since written to that array in place).

\* The most calls made on one instance.
MaxCalls == 2

\* The constructor calls whose instances are used: a single fiber, an
\* anisotropic pair, two constituents of differing aspect ratio, an aspect
\* ratio of 1 in float64 (the stiffness is NaN), and volume fraction 0 (the
\* stiffness equals Cm).
MethodCalls ==
    <<[op |-> "MoriTanaka", matrix |-> MatrixA, fiber |-> FiberA,
      v_frac |-> Rat(1, 4), a_ratio |-> 2, isList |-> FALSE, st |-> "float"],
     [op |-> "MoriTanaka", matrix |-> MatrixB, fiber |-> FiberB,
      v_frac |-> Rat(1, 2), a_ratio |-> 3, isList |-> FALSE, st |-> "float64"],
     [op |-> "MoriTanaka", matrix |-> MatrixA, fiber |-> <<FiberA, FiberB>>,
      v_frac |-> <<Rat(1, 4), Rat(1, 4)>>, a_ratio |-> <<2, 3>>,
      isList |-> TRUE, st |-> "float"],
     [op |-> "MoriTanaka", matrix |-> MatrixA, fiber |-> FiberA,
      v_frac |-> Rat(1, 4), a_ratio |-> 1, isList |-> FALSE, st |-> "float64"],
     [op |-> "MoriTanaka", matrix |-> MatrixA, fiber |-> FiberA,
      v_frac |-> 0, a_ratio |-> 2, isList |-> FALSE, st |-> "float"]>>

\* The orientation states handed to the methods of an instance.
MethodKinds == {"aligned", "tilted", "isotropic"}

NoReturn == [op |-> "none", n |-> 0, err |-> "none", ref |-> "none",
             written |-> FALSE]

InitMethods ==
    /\ conv = NoCall
    /\ thr = NoCall
    /\ ret = NoReturn
    /\ \E i \in DOMAIN MethodCalls :
          \E m \in {MoriTanaka(MethodCalls[i].matrix, MethodCalls[i].fiber,
                                MethodCalls[i].v_frac, MethodCalls[i].a_ratio,
                                MethodCalls[i].isList, MethodCalls[i].st)} :
              /\ m.err = "none"
              /\ args = MethodCalls[i]
              /\ obj = m
              /\ err = m.err
              /\ log = m.log
              /\ heap = [numbers |-> "field", Cm |-> m.Cm,
                         effective_stiffness66 |-> m.effective_stiffness66,
                         effective_stiffness3333 |-> m.effective_stiffness3333,
                         returned |-> Unset]

\* self as a method finds it: the instance with its arrays as they are now.
SelfNow ==
    [obj EXCEPT !.Cm = heap.Cm,
                !.effective_stiffness66 = heap.effective_stiffness66,
                !.effective_stiffness3333 = heap.effective_stiffness3333]

\* A call has returned the array value, made by the call (line 208, 221, 254
\* or 291: an operator or a function that builds a new ndarray).
ReturnNew(op, value, more) ==
    /\ ret' = [op |-> op, n |-> ret.n + 1, err |-> "none", ref |-> "returned",
               written |-> FALSE] @@ more
    /\ heap' = [heap EXCEPT !.returned = value]

\* get_effective_stiffness() handing out the array stored at construction.
ReturnCached(self) ==
    [value |-> self.effective_stiffness66, ref |-> "effective_stiffness66"]

\* get_effective_stiffness(): what it returns, the value and the array that
\* holds it.  C_eff is the array the + of line 208 or 221 makes.
ReturnEffective(self) ==
    [value |-> get_effective_stiffness(self).C_eff, ref |-> "returned"]

GetEffectiveStiffness ==
    /\ ret.n < MaxCalls
    /\ \E r \in {ReturnEffective(SelfNow)} :
          /\ ret' = [op |-> "get_effective_stiffness", n |-> ret.n + 1,
                     err |-> "none", ref |-> r.ref, written |-> FALSE]
          /\ heap' = IF r.ref = "returned" THEN [heap EXCEPT !.returned = r.value]
                     ELSE heap
    /\ UNCHANGED <<args, obj, err, log, conv, thr>>

\* get_average_stiffness(N2, N4, return_dim) with the orientation tensors of
\* one state, N4 in full or in reduced form.
GetAverageStiffness ==
    /\ ret.n < MaxCalls
    /\ \E kind \in MethodKinds, shape \in {"3333", "66"},
          return_dim \in {"66", "3333", "full"} :
          \E N2 \in {OrientationTensors[kind].N2},
             N4 \in {OrientationTensors[kind].N4[shape]} :
              ReturnNew("get_average_stiffness",
                        get_average_stiffness(SelfNow, N2, N4, return_dim),
                        [N2 |-> N2, N4 |-> N4, return_dim |-> return_dim])
    /\ UNCHANGED <<args, obj, err, log, conv, thr>>

\* get_orientation_average(self.effective_stiffness3333, N2, N4)
GetOrientationAverage ==
    /\ ret.n < MaxCalls
    /\ \E kind \in MethodKinds, shape \in {"3333", "66"} :
          \E N2 \in {OrientationTensors[kind].N2},
             N4 \in {OrientationTensors[kind].N4[shape]} :
              ReturnNew("get_orientation_average",
                        get_orientation_average(heap.effective_stiffness3333,
                                                N2, N4),
                        [N2 |-> N2, N4 |-> N4])
    /\ UNCHANGED <<args, obj, err, log, conv, thr>>

\* is_symmetric()
IsSymmetric ==
    /\ ret.n < MaxCalls
    /\ \E report \in is_symmetric(heap.effective_stiffness3333, heap.numbers) :
          ret' = [op |-> "is_symmetric", n |-> ret.n + 1, err |-> "none",
                  ref |-> "none", written |-> FALSE, report |-> report]
    /\ UNCHANGED <<args, obj, err, log, conv, heap, thr>>

\* The caller doubles, in place, the array the last call returned.
CallerWrites ==
    /\ ret.ref # "none"
    /\ ~ret.written
    /\ ret' = [ret EXCEPT !.written = TRUE]
    /\ heap' = [heap EXCEPT ![ret.ref] =
                    IF Len(@) = 6 THEN Scale(2, @) ELSE TenScale(2, @)]
    /\ UNCHANGED <<args, obj, err, log, conv, thr>>

NextMethods ==
    \/ GetEffectiveStiffness
    \/ GetAverageStiffness
    \/ GetOrientationAverage
    \/ IsSymmetric
    \/ CallerWrites

SpecMethods == InitMethods /\ [][NextMethods]_vars

\* ------------------------------------------------------------ C15
\* N4 in the other form: reduced for full, full for reduced.
OtherForm(N4) ==
    IF N4.shape = "66" THEN Shaped("3333", mandel2tensor(N4.val))
    ELSE Shaped("66", tensor2mandel(N4.val))

Is66(x) == Len(x) = 6 /\ \A i \in 1..6 : Len(x[i]) = 6
Is3333(x) ==
    /\ Len(x) = 3
    /\ \A i, j, k \in Idx3 : Len(x[i]) = 3 /\ Len(x[i][j]) = 3 /\ Len(x[i][j][k]) = 3

\* C15: get_average_stiffness(N2, N4, return_dim) returns the same array
\* whether N4 (an array with both minor symmetries) is handed over in full
\* form or in reduced form, the reduced form being expanded with
\* mandel2tensor; the array is 6x6 for return_dim "66" and 3x3x3x3 for
\* return_dim "3333".
C15_AverageForms ==
    (/\ ret.op = "get_average_stiffness" /\ ~ret.written
     /\ ret.return_dim \in {"66", "3333"}
     /\ ret.N4.shape = "3333" =>
            LeftMinorSym(ret.N4.val) /\ RightMinorSym(ret.N4.val))
    => /\ heap.returned =
              get_average_stiffness(SelfNow, ret.N2, OtherForm(ret.N4),
                                    ret.return_dim)
       /\ ret.N4.shape = "66" =>
              heap.returned =
                  get_average_stiffness(SelfNow, ret.N2,
                      Shaped("3333", mandel2tensor(ret.N4.val)), ret.return_dim)
       /\ ret.return_dim = "66" => Is66(heap.returned)
       /\ ret.return_dim = "3333" =>
              /\ Is3333(heap.returned)
              /\ tensor2mandel(heap.returned) =
                     get_average_stiffness(SelfNow, ret.N2, ret.N4, "66")

\* A call with N4 in reduced form and return_dim "3333" has returned a
\* 3x3x3x3 array that holds no NaN and is not the stored stiffness.
C15_Witness ==
    /\ ret.op = "get_average_stiffness" /\ ~ret.written
    /\ ret.N4.shape = "66" /\ ret.return_dim = "3333"
    /\ Is3333(heap.returned)
    /\ ~HasNaN4(heap.returned)
    /\ heap.returned # heap.effective_stiffness3333
    /\ heap.returned =
           get_average_stiffness(SelfNow, ret.N2, OtherForm(ret.N4), "3333")

\* ------------------------------------- is_symmetric on magnitudes
\* For what is_symmetric prints, the stored stiffness is held in fixed point.
\* The largest deviation of an entry from its symmetric counterpart, in
\* multiples of 1e-4.
MaxResidual == 8

\* The largest seed of a stored stiffness.
MaxStoredSeed == 2

\* A stored stiffness: a symmetric array with two entries raised by d1 and d2,
\* which breaks the left minor symmetry (and with it major symmetry), the
\* right minor symmetry (likewise) or major symmetry alone; or with a NaN
\* entry.  __init__ stores arrays with both minor symmetries (line 110); the
\* attribute is public, and a caller may assign any array to it.
StoredStiffness(kind, s, d1, d2) ==
    With1(DrawTensor("complete", s), LAMBDA T :
        LET p == CASE kind = "left" -> <<<<1, 2, 1, 1>>, <<1, 3, 2, 2>>>>
                   [] kind = "right" -> <<<<1, 1, 1, 2>>, <<2, 2, 1, 3>>>>
                   [] OTHER -> <<<<1, 1, 2, 2>>, <<1, 1, 3, 3>>>>
        IN  Ten4(LAMBDA i, j, k, l :
                IF kind = "nan" /\ <<i, j, k, l>> = <<1, 1, 2, 2>> THEN NaN
                ELSE IF <<i, j, k, l>> = p[1] THEN T[i][j][k][l] + d1
                ELSE IF <<i, j, k, l>> = p[2] THEN T[i][j][k][l] + d2
                ELSE T[i][j][k][l]))

\* The reduced form of a fixed-point array: entry (m, n) is <<e, x>> for the
\* number sqrt(2)^e * x, e the number of shear pairs among m and n.
FixedMandel(T) ==
    With1(T, LAMBDA X : Mat6(LAMBDA m, n :
        <<(IF m <= 3 THEN 0 ELSE 1) + (IF n <= 3 THEN 0 ELSE 1),
          X[VoigtPairs[m][1]][VoigtPairs[m][2]][VoigtPairs[n][1]][VoigtPairs[n][2]]>>))

InitSymmetry ==
    /\ args = NoCall
    /\ err = "none"
    /\ log = <<>>
    /\ conv = NoCall
    /\ thr = NoCall
    /\ ret = NoReturn
    /\ \E kind \in {"left", "right", "major", "nan"}, s \in 1..MaxStoredSeed,
          d1 \in 0..MaxResidual, d2 \in 0..MaxResidual :
          \E T \in {StoredStiffness(kind, s, d1, d2)} :
              /\ obj = [err |-> "none", effective_stiffness66 |-> FixedMandel(T),
                        effective_stiffness3333 |-> T]
              /\ heap = [numbers |-> "fixed", Cm |-> Unset,
                         effective_stiffness66 |-> FixedMandel(T),
                         effective_stiffness3333 |-> T,
                         returned |-> Unset]

NextSymmetry == IsSymmetric

SpecSymmetry == InitSymmetry /\ [][NextSymmetry]_vars

\* ------------------------------------------------------------ C17
\* T with the first pair of indices swapped (1), the second pair swapped (2),
\* the two pairs exchanged (3).
Swapped(T, op) ==
    Ten4(LAMBDA i, j, k, l :
        CASE op = 1 -> T[j][i][k][l]
          [] op = 2 -> T[i][j][l][k]
          [] OTHER -> T[k][l][i][j])

RECURSIVE SumOfSquares(_, _, _)
\* The sum, over the index tuples in ixs, of the squared entries of T - U.
SumOfSquares(T, U, ixs) ==
    IF ixs = {} THEN 0
    ELSE LET x == CHOOSE y \in ixs : TRUE
             d == T[x[1]][x[2]][x[3]][x[4]] - U[x[1]][x[2]][x[3]][x[4]]
         IN  d * d + SumOfSquares(T, U, ixs \ {x})

\* The square of the Frobenius norm of T - swap(T), in multiples of 1e-8; NaN
\* when T holds a NaN.
SwapResidual(T, op) ==
    IF \E i, j, k, l \in Idx3 : T[i][j][k][l] = NaN THEN NaN
    ELSE SumOfSquares(T, Swapped(T, op), Idx3 \X Idx3 \X Idx3 \X Idx3)

\* C17: is_symmetric() raises nothing for any stored effective_stiffness3333,
\* leaves effective_stiffness66 and effective_stiffness3333 as they were, and
\* for each of the three operations (swap the first pair of indices, swap the
\* second pair, exchange the pairs) reports "passed" exactly when the
\* Frobenius norm of T - swap(T) is strictly below 1e-3, and "failed" with the
\* residual otherwise.
C17_SymmetryReport ==
    (ret # NoCall /\ ret.op = "is_symmetric") =>
        /\ ret.err = "none"
        /\ heap.effective_stiffness66 = obj.effective_stiffness66
        /\ heap.effective_stiffness3333 = obj.effective_stiffness3333
        /\ \A op \in 1..3 :
              LET r == SwapResidual(obj.effective_stiffness3333, op)
                  below == r # NaN /\ r < Tolerance * Tolerance
              IN  /\ ret.report[op].verdict = (IF below THEN "passed" ELSE "failed")
                  /\ ~below => ret.report[op].res = r

\* is_symmetric() has reported on a stiffness whose deviation from major
\* symmetry has norm exactly 1e-3 (failed, with that residual) and whose minor
\* symmetries are exact (passed).
C17_Witness ==
    /\ ret # NoCall /\ ret.op = "is_symmetric"
    /\ heap.numbers = "fixed"
    /\ SwapResidual(obj.effective_stiffness3333, 3) = Tolerance * Tolerance
    /\ ret.report[3].verdict = "failed"
    /\ ret.report[3].res = Tolerance * Tolerance
    /\ ret.report[1].verdict = "passed" /\ ret.report[2].verdict = "passed"

\* A deviation from left minor symmetry below the tolerance has passed.
C17_SeenPassedUnequal ==
    /\ ret # NoCall /\ ret.op = "is_symmetric"
    /\ SwapResidual(obj.effective_stiffness3333, 1) > 0
    /\ ret.report[1].verdict = "passed"

\* A stiffness with a NaN entry has failed all three, with residual NaN.
C17_SeenNaN ==
    /\ ret # NoCall /\ ret.op = "is_symmetric"
    /\ \A op \in 1..3 :
          ret.report[op].verdict = "failed" /\ ret.report[op].res = NaN

\* ------------------------------------------------------------ C18
\* C18: after construction, any sequence of calls of get_effective_stiffness(),
\* get_average_stiffness(..), get_orientation_average(..) and is_symmetric()
\* (and whatever the caller does to the arrays they return) leaves
\* effective_stiffness66 and effective_stiffness3333 as construction left
\* them; what get_effective_stiffness() returns equals effective_stiffness66,
\* in an array that is neither the stored array nor Cm.
C18_CachedUntouched ==
    /\ ret # NoCall =>
          /\ heap.effective_stiffness66 = obj.effective_stiffness66
          /\ heap.effective_stiffness3333 = obj.effective_stiffness3333
    /\ (ret # NoCall /\ ret.op = "get_effective_stiffness") =>
          /\ ret.ref \notin {"effective_stiffness66", "Cm"}
          /\ ~ret.written => heap[ret.ref] = heap.effective_stiffness66

\* A second call, get_effective_stiffness(), has returned on an instance of
\* volume fraction 0 (so the value equals Cm too), and the caller has written
\* to the returned array.
C18_Witness ==
    /\ ret # NoCall
    /\ ret.op = "get_effective_stiffness" /\ ret.n = 2 /\ ret.written
    /\ heap.effective_stiffness66 = heap.Cm
    /\ heap.returned # heap.effective_stiffness66
    /\ heap.effective_stiffness66 = obj.effective_stiffness66

\* ------------------------------------------- calls of _get_eshelby
\* The Poisson ratios of the matrix are the multiples of 1/20 from
\* -MaxPoisson/20 to MaxPoisson/20.
MaxPoisson == 9

PoissonRatios == {Rat(n, 20) : n \in 0..MaxPoisson} \cup
                 {Neg(Rat(n, 20)) : n \in 1..MaxPoisson}

\* A call self._get_eshelby(a_ratio, return_dim) is drawn, with the nu of
\* self.matrix; ret holds the arguments and, once it has ended, the outcome.
InitEshelby ==
    /\ args = NoCall
    /\ obj = NoCall
    /\ err = "none"
    /\ log = <<>>
    /\ conv = NoCall
    /\ heap = NoCall
    /\ thr = NoCall
    /\ \E nu \in PoissonRatios, a \in AspectRatios, st \in ScalarTypes,
          return_dim \in {"66", "3333"} :
          ret = [op |-> "_get_eshelby", nu |-> nu, a_ratio |-> a, st |-> st,
                 return_dim |-> return_dim, ended |-> FALSE, err |-> "none",
                 S |-> <<>>]

\* MoriTanaka._get_eshelby
GetEshelby ==
    /\ ~ret.ended
    /\ \E E \in {get_eshelby(ret.nu, ret.a_ratio, ret.st, ret.return_dim)} :
          ret' = [ret EXCEPT !.ended = TRUE, !.err = E.err, !.S = E.S]
    /\ UNCHANGED <<args, obj, err, log, conv, heap, thr>>

NextEshelby == GetEshelby

SpecEshelby == InitEshelby /\ [][NextEshelby]_vars

\* ------------------------------------------------------------ C16
\* The index positions of the claim: 1111, 2222, 3333, 2233, 3322, 2211,
\* 3311, 1122, 1133, 2323, 3232, 1212, 1313.
EshelbyPositions ==
    {<<1, 1, 1, 1>>, <<2, 2, 2, 2>>, <<3, 3, 3, 3>>, <<2, 2, 3, 3>>,
     <<3, 3, 2, 2>>, <<2, 2, 1, 1>>, <<3, 3, 1, 1>>, <<1, 1, 2, 2>>,
     <<1, 1, 3, 3>>, <<2, 3, 2, 3>>, <<3, 2, 3, 2>>, <<1, 2, 1, 2>>,
     <<1, 3, 1, 3>>}

\* C16: for every nu and every aspect ratio > 1, the array
\* _get_eshelby(a, return_dim = "3333") returns is zero at each of the 81
\* index positions except 1111, 2222, 3333, 2233, 3322, 2211, 3311, 1122,
\* 1133, 2323, 3232, 1212, 1313, and S2222 = S3333, S2233 = S3322,
\* S2211 = S3311, S1122 = S1133, S2323 = S3232, S1212 = S1313.
C16_EshelbyEntries ==
    (/\ ret # NoCall /\ ret.op = "_get_eshelby" /\ ret.ended
     /\ ret.return_dim = "3333" /\ ret.a_ratio # 1)
    => /\ ret.err = "none"
       /\ \A i, j, k, l \in Idx3 :
              <<i, j, k, l>> \notin EshelbyPositions => ret.S[i][j][k][l] = 0
       /\ ret.S[2][2][2][2] = ret.S[3][3][3][3]
       /\ ret.S[2][2][3][3] = ret.S[3][3][2][2]
       /\ ret.S[2][2][1][1] = ret.S[3][3][1][1]
       /\ ret.S[1][1][2][2] = ret.S[1][1][3][3]
       /\ ret.S[2][3][2][3] = ret.S[3][2][3][2]
       /\ ret.S[1][2][1][2] = ret.S[1][3][1][3]

\* A call with aspect ratio 2 has returned the full form: it is non-zero at
\* all thirteen positions and zero at 3223 and 2112.
C16_Witness ==
    /\ ret # NoCall /\ ret.op = "_get_eshelby" /\ ret.ended
    /\ ret.return_dim = "3333" /\ ret.a_ratio = 2 /\ ret.err = "none"
    /\ \A x \in EshelbyPositions :
          ret.S[x[1]][x[2]][x[3]][x[4]] # 0 /\ ~IsNaN(ret.S[x[1]][x[2]][x[3]][x[4]])
    /\ ret.S[3][2][2][3] = 0 /\ ret.S[2][1][1][2] = 0

\* ------------------------------------------------- terms of the claims
\* A constructor call has ended / has returned an instance.
Done == obj # NoCall
Returned == Done /\ err = "none"

\* The three lists of a call with lists have one length.
SameLengths ==
    Len(args.fiber) = Len(args.v_frac) /\ Len(args.v_frac) = Len(args.a_ratio)

\* A is singular (and holds no NaN).
IsSingular66(A) == ~HasNaN(A) /\ GaussJordan(Augmented(A), 1) = Singular

\* The call stored no effective stiffness.
NothingStored ==
    /\ obj.effective_stiffness66 = Unset
    /\ obj.effective_stiffness3333 = Unset

\* The Eshelby tensor of aspect ratio a in the matrix of the call, and whether
\* its computation returns.
ArgEshelby(a) == get_eshelby(args.matrix.nu, a, args.st, "66")
EshelbyReturns(a) == ArgEshelby(a).err = "none"

\* Ainv = I + S.Cm^-1.pol for fiber stiffness Cf and aspect ratio a (Cm
\* invertible).
ArgAinv(Cf, a) ==
    MatAdd(eye, tensor_product(ArgEshelby(a).S,
               tensor_product(inv(args.matrix.stiffness66),
                              MatSub(Cf, args.matrix.stiffness66))))

\* In a call with lists of one length and invertible Cm: the loop of lines
\* 97-107 gets to constituent i.
Reaches(i) ==
    \A j \in 1..(i - 1) :
        /\ EshelbyReturns(args.a_ratio[j])
        /\ ~IsSingular66(ArgAinv(args.fiber[j].stiffness66, args.a_ratio[j]))
        /\ ~(args.st = "float" /\ SumSeq(args.v_frac) = 0)

\* sum_i c[i] * A[i]
RECURSIVE WeightedSum(_, _)
WeightedSum(c, A) ==
    IF A = <<>> THEN Zeros66
    ELSE MatAdd(Scale(c[1], A[1]), WeightedSum(Tail(c), Tail(A)))

\* ------------------------------------------------------------ C2
\* C2: after every successful construction, in single and in multi mode,
\* effective_stiffness66 and effective_stiffness3333 are set,
\* effective_stiffness66 is what get_effective_stiffness() computes, and
\* effective_stiffness3333 is mandel2tensor(effective_stiffness66).
C2_StiffnessCached ==
    Returned =>
        /\ obj.effective_stiffness66 # Unset
        /\ obj.effective_stiffness3333 # Unset
        /\ obj.effective_stiffness66 = get_effective_stiffness(obj).C_eff
        /\ obj.effective_stiffness3333 = mandel2tensor(obj.effective_stiffness66)

\* A call with two constituents has returned an instance whose stiffness is
\* neither NaN nor the matrix's.
C2_Witness ==
    /\ Returned
    /\ args.isList /\ Len(args.fiber) = 2
    /\ obj.effective_stiffness66 # Unset
    /\ ~HasNaN(obj.effective_stiffness66)
    /\ obj.effective_stiffness66 # obj.Cm
    /\ obj.effective_stiffness3333 = mandel2tensor(obj.effective_stiffness66)

\* ------------------------------------------------------------ C3
\* C3: when fiber is a list and the lengths of fiber, v_frac and a_ratio are
\* not all equal, the construction fails with the dimension-mismatch error
\* (the AssertionError of lines 85-87) before any Eshelby tensor, strain
\* concentration tensor or effective stiffness is computed, and the caller gets
\* no instance.
C3_DimensionMismatch ==
    (Done /\ args.isList /\ ~SameLengths) =>
        /\ err = "AssertionError"
        /\ \A i \in 1..Len(log) : log[i] # "eshelby"
        /\ obj.A_f_alpha = <<>>
        /\ NothingStored

\* A call with two fibers and one aspect ratio has failed.
C3_Witness ==
    /\ Done
    /\ args.isList /\ Len(args.fiber) = 2 /\ Len(args.v_frac) = 2
    /\ Len(args.a_ratio) = 1
    /\ err = "AssertionError"

\* ------------------------------------------------------------ C4
\* The call ended in the singular-matrix error (numpy's LinAlgError) and stored
\* no effective stiffness.
SingularOutcome == err = "LinAlgError" /\ NothingStored

\* The matrix v.I + (1-v).Ainv of a call with a single fiber.
SingleSystem ==
    MatAdd(Scale(args.v_frac, eye),
           Scale(Sub(1, args.v_frac), ArgAinv(args.fiber.stiffness66, args.a_ratio)))

\* The matrix c_f.A_ave + (1-c_f).I of a call with lists, from the lists the
\* constructor has stored.
MultiSystem ==
    MatAdd(Scale(obj.c_f, WeightedSum(obj.c_alpha, obj.A_f_alpha)),
           Scale(Sub(1, obj.c_f), eye))

C4_SeenCm ==
    Done /\ IsSingular66(args.matrix.stiffness66) /\ err = "LinAlgError"
C4_SeenSingle ==
    /\ Done /\ ~args.isList /\ EshelbyReturns(args.a_ratio)
    /\ ~IsSingular66(args.matrix.stiffness66)
    /\ IsSingular66(SingleSystem)
    /\ err = "LinAlgError"
C4_SeenAinv ==
    /\ Done /\ args.isList /\ SameLengths
    /\ ~IsSingular66(args.matrix.stiffness66)
    /\ \E i \in 1..Len(args.fiber) :
          /\ Reaches(i) /\ EshelbyReturns(args.a_ratio[i])
          /\ IsSingular66(ArgAinv(args.fiber[i].stiffness66, args.a_ratio[i]))
    /\ err = "LinAlgError"

\* ------------------------------------------------------------ C5
\* C5: an Eshelby computation with aspect ratio exactly 1 (the a_ratio of a
\* call with a single fiber, or an entry of a_ratio the loop of a call with
\* lists gets to) fails with DomainError: the caller gets no instance, and no
\* NaN reaches an effective stiffness.
C5_SphereRejected ==
    /\ (Done /\ ~args.isList /\ args.a_ratio = 1) =>
          err = "DomainError" /\ NothingStored
    /\ (/\ Done /\ args.isList /\ SameLengths
        /\ ~IsSingular66(args.matrix.stiffness66)) =>
          \A i \in 1..Len(args.a_ratio) :
              (Reaches(i) /\ args.a_ratio[i] = 1) =>
                  err = "DomainError" /\ NothingStored

\* ------------------------------------------------------------ C6
\* Every needed inverse of a call with lists exists up to the last
\* constituent, and no aspect ratio is 1.
MultiWellPosed ==
    /\ SameLengths
    /\ ~IsSingular66(args.matrix.stiffness66)
    /\ \A i \in 1..Len(args.fiber) :
          /\ args.a_ratio[i] # 1
          /\ ~IsSingular66(ArgAinv(args.fiber[i].stiffness66, args.a_ratio[i]))

\* C6: with total inclusion volume fraction 0 the construction succeeds and
\* effective_stiffness66 = Cm: with a single fiber and v_frac = 0 (Cm and Ainv
\* invertible), and with a non-empty list whose volume fractions are all 0.
C6_ZeroFraction ==
    /\ (/\ Done /\ ~args.isList /\ args.v_frac = 0 /\ args.a_ratio # 1
        /\ ~IsSingular66(args.matrix.stiffness66)
        /\ ~IsSingular66(ArgAinv(args.fiber.stiffness66, args.a_ratio))) =>
          err = "none" /\ obj.effective_stiffness66 = obj.Cm
    /\ (/\ Done /\ args.isList /\ MultiWellPosed
        /\ Len(args.fiber) >= 1
        /\ \A i \in 1..Len(args.v_frac) : args.v_frac[i] = 0) =>
          err = "none" /\ obj.effective_stiffness66 = obj.Cm

\* ------------------------------------------------------------ C1
\* The instance a call with the single fiber, volume fraction and aspect ratio
\* of a call with one-element lists makes.
SingleTwin ==
    MoriTanaka(args.matrix, args.fiber[1], args.v_frac[1], args.a_ratio[1],
               FALSE, args.st)

\* C1: for every Cm, Cf, v and a for which the needed inverses exist, a call
\* with the one-element lists [fiber], [v], [a] yields the
\* effective_stiffness66 a call with fiber, v, a yields.
C1_OneElementLists ==
    (/\ Done /\ args.isList /\ Len(args.fiber) = 1
     /\ MultiWellPosed
     /\ SingleTwin.err = "none") =>
        /\ err = "none"
        /\ obj.effective_stiffness66 = SingleTwin.effective_stiffness66

\* ------------------------------------------------------------ C7
\* Every stiffness handed to the call is a symmetric matrix.
SymmetricInputs ==
    /\ IsSymmetric66(args.matrix.stiffness66)
    /\ IF args.isList
       THEN \A i \in 1..Len(args.fiber) : IsSymmetric66(args.fiber[i].stiffness66)
       ELSE IsSymmetric66(args.fiber.stiffness66)

\* Cm is isotropic, and the Poisson ratio handed over with it is its own:
\* nu = lam / (2 (lam + mu)) with lam = Cm[1][2] and 2 mu = Cm[4][4].
IsotropicMatrix ==
    LET Cm == args.matrix.stiffness66
        lam == Cm[1][2]
        mu == Mul(Rat(1, 2), Cm[4][4])
    IN  /\ Cm = Mat6(LAMBDA i, j :
                  IF i <= 3 /\ j <= 3
                  THEN (IF i = j THEN Add(lam, Mul(2, mu)) ELSE lam)
                  ELSE IF i = j THEN Mul(2, mu) ELSE 0)
        /\ Mul(args.matrix.nu, Mul(2, Add(lam, mu))) = lam

\* C7: every instance constructed from symmetric Cm and Cf (single mode, and
\* multi mode with any number of inclusion types and differing aspect ratios)
\* has an effective_stiffness3333 with left-minor, right-minor and major
\* symmetry and a symmetric effective_stiffness66.  Stated of the calls the
\* Eshelby tensor of lines 131-183 is derived for, an isotropic matrix with
\* its own Poisson ratio, and of instances whose stiffness holds no NaN
\* (those are C5's and C6's).
C7_SymmetricStiffness ==
    (/\ Returned /\ SymmetricInputs /\ IsotropicMatrix
     /\ ~HasNaN(obj.effective_stiffness66)) =>
        /\ IsSymmetric66(obj.effective_stiffness66)
        /\ LeftMinorSym(obj.effective_stiffness3333)
        /\ RightMinorSym(obj.effective_stiffness3333)
        /\ MajorSym(obj.effective_stiffness3333)

\* ------------------------------------------------------------ C20
\* C20: after a successful construction from lists of N >= 1 inclusion types
\* with non-zero total volume fraction, A_f_alpha, pol_alpha and c_alpha have N
\* entries each, in the order of the lists (pol_alpha[i] = Cf_i - Cm,
\* A_f_alpha[i] the inverse of I + S_i.Cm^-1.pol_i), c_f is the sum of v_frac,
\* c_alpha[i] = v_frac[i] / c_f, and the entries of c_alpha add up to 1.
C20_VolumeShares ==
    (/\ Returned /\ args.isList /\ Len(args.fiber) >= 1
     /\ SumSeq(args.v_frac) # 0)
    => \E N \in {Len(args.fiber)}, Cm_inv \in {inv(args.matrix.stiffness66)} :
          /\ Len(obj.A_f_alpha) = N /\ Len(obj.pol_alpha) = N
          /\ Len(obj.c_alpha) = N
          /\ obj.nr_constituents = N
          /\ obj.c_f = SumSeq(args.v_frac)
          /\ SumSeq(obj.c_alpha) = 1
          /\ \A i \in 1..N :
                /\ obj.c_alpha[i] = Div(args.v_frac[i], obj.c_f)
                /\ obj.pol_alpha[i] =
                       MatSub(args.fiber[i].stiffness66, args.matrix.stiffness66)
                /\ \/ HasNaN(obj.A_f_alpha[i]) /\ args.a_ratio[i] = 1
                   \/ tensor_product(obj.A_f_alpha[i],
                          MatAdd(eye, tensor_product(ArgEshelby(args.a_ratio[i]).S,
                                          tensor_product(Cm_inv, obj.pol_alpha[i]))))
                         = eye

\* A construction from two different inclusion types with volume fractions
\* 1/4 and 1/2 has succeeded: the shares are 1/3 and 2/3.
C20_Witness ==
    /\ Returned /\ args.isList /\ Len(args.fiber) = 2
    /\ args.fiber[1] # args.fiber[2]
    /\ args.v_frac = <<Rat(1, 4), Rat(1, 2)>>
    /\ obj.c_f = Rat(3, 4)
    /\ obj.c_alpha = <<Rat(1, 3), Rat(2, 3)>>
    /\ obj.pol_alpha[1] # obj.pol_alpha[2]
    /\ ~HasNaN(obj.A_f_alpha[1]) /\ ~HasNaN(obj.A_f_alpha[2])

\* ------------------------------------------ constructions side by side
\* Several constructor calls run at once, each in its own thread, interleaved
\* statement by statement.  heap holds what the callers hand over by
\* reference: the stiffness66 arrays of two matrix and two fiber materials and
\* the lists v_frac and a_ratio.  thr[t] is thread t: the call it serves (an
\* index into ConcurrentCalls), the statement it is at (pc), the instance
\* under construction (self), and the locals Cm_inv and i of __init__.
\* self.Cm and self.Cf are the callers' arrays themselves (lines 73 and 79),
\* so a thread sees in them what heap holds when it reads.

\* The number of constructor calls under way.
MaxInstances == 2

Instances == 1..MaxInstances

InputHeap ==
    [m1 |-> MatrixA.stiffness66, m2 |-> MatrixB.stiffness66,
     f1 |-> FiberA.stiffness66, f2 |-> FiberB.stiffness66,
     v_frac |-> <<Rat(1, 4), Rat(1, 2)>>, a_ratio |-> <<2, 3>>]

\* matrix.nu of the two matrix materials (a float, held by value).
MatrixNu == [m1 |-> MatrixA.nu, m2 |-> MatrixB.nu]

\* The calls a thread may serve: matrix and fiber name arrays of the heap;
\* a call with one fiber material passes v_frac and a_ratio as numbers, a call
\* with lists passes the two lists of the heap.
ConcurrentCalls ==
    <<[matrix |-> "m1", isList |-> FALSE, fiber |-> <<"f1">>,
       v_frac |-> Rat(1, 4), a_ratio |-> 2],
      [matrix |-> "m1", isList |-> TRUE, fiber |-> <<"f1", "f2">>,
       v_frac |-> 0, a_ratio |-> 0],
      [matrix |-> "m2", isList |-> FALSE, fiber |-> <<"f2">>,
       v_frac |-> Rat(1, 2), a_ratio |-> 3]>>

\* The material objects of call c as heap h holds them.
MatrixOf(c, h) == [stiffness66 |-> h[c.matrix], nu |-> MatrixNu[c.matrix]]
FiberOf(c, h) ==
    [i \in 1..Len(c.fiber) |-> [stiffness66 |-> h[c.fiber[i]], nu |-> Rat(1, 5)]]

\* The instance of a thread as the thread reads it now: the fields that are
\* callers' arrays show the heap's content.
Seen(th, h) ==
    With1(ConcurrentCalls[th.call], LAMBDA c :
        IF th.pc = "begin" THEN th.self
        ELSE [th.self EXCEPT
                 !.matrix = MatrixOf(c, h),
                 !.fiber = IF c.isList THEN FiberOf(c, h) ELSE FiberOf(c, h)[1],
                 !.Cm = h[c.matrix],
                 !.Cf = IF c.isList \/ th.pc = "branch" THEN @
                        ELSE h[c.fiber[1]]])

\* What a sequential construction from the untouched inputs leaves.
Sequential ==
    [k \in DOMAIN ConcurrentCalls |->
        With1(ConcurrentCalls[k], LAMBDA c :
            IF c.isList
            THEN MoriTanaka(MatrixOf(c, InputHeap), FiberOf(c, InputHeap),
                            InputHeap.v_frac, InputHeap.a_ratio, TRUE, "float")
            ELSE MoriTanaka(MatrixOf(c, InputHeap), FiberOf(c, InputHeap)[1],
                            c.v_frac, c.a_ratio, FALSE, "float"))]

\* Lines 85-96: the assert, the empty lists, c_f and the local Cm_inv.
Lines85to96(self, v_frac, a_ratio) ==
    IF ~(Len(self.fiber) = Len(v_frac) /\ Len(v_frac) = Len(a_ratio))
    THEN [self |-> [self EXCEPT !.err = "AssertionError"], Cm_inv |-> Unset]
    ELSE With1(inv(self.Cm), LAMBDA Cm_inv :
           [self |-> [self EXCEPT !.nr_constituents = Len(self.fiber),
                                  !.c_f = SumSeq(v_frac),
                                  !.err = IF Cm_inv = Singular
                                          THEN "LinAlgError" ELSE "none",
                                  !.log = IF Cm_inv = Singular
                                          THEN <<"inv:singular">> ELSE <<"inv">>],
            Cm_inv |-> Cm_inv])

\* Line 109 with C_eff built in the array self.Cm refers to
\* (C_eff = self.Cm; C_eff += ...) instead of in a new one.
Line109InPlace(self, Cm, h) ==
    With1(get_effective_stiffness(self), LAMBDA R :
        IF R.err # "none"
        THEN [self |-> [self EXCEPT !.err = R.err, !.log = @ \o R.log],
              heap |-> h]
        ELSE [self |-> [self EXCEPT !.log = @ \o R.log,
                                    !.Cm = R.C_eff,
                                    !.effective_stiffness66 = R.C_eff],
              heap |-> [h EXCEPT ![Cm] = R.C_eff]])

\* Line 109: self.effective_stiffness66 = self.get_effective_stiffness().
\* Lines 208 and 221 build C_eff as self.Cm + ..., a new array, and lines
\* 216-217 add in place to arrays that line 212-213 made for this call: the
\* array named Cm and every other array of the heap keep their content.
Line109(self, Cm, h) ==
    With1(get_effective_stiffness(self), LAMBDA R :
        IF R.err # "none"
        THEN [self |-> [self EXCEPT !.err = R.err, !.log = @ \o R.log],
              heap |-> h]
        ELSE [self |-> [self EXCEPT !.log = @ \o R.log,
                                    !.effective_stiffness66 = R.C_eff],
              heap |-> h])

\* Where a thread goes after a statement that left it self.
After(self, pc) == IF self.err # "none" THEN "raised" ELSE pc

\* The calls are chosen in non-decreasing order: threads differ by name only.
InitConcurrent ==
    /\ args = NoCall
    /\ obj = NoCall
    /\ err = "none"
    /\ log = <<>>
    /\ conv = NoCall
    /\ ret = NoCall
    /\ heap = InputHeap
    /\ \E calls \in [Instances -> DOMAIN ConcurrentCalls] :
          /\ \A t \in Instances : t > 1 => calls[t - 1] <= calls[t]
          /\ thr = [t \in Instances |->
                       [call |-> calls[t], pc |-> "begin", self |-> NoCall,
                        Cm_inv |-> Unset, i |-> 0]]

\* Lines 70-74 in thread t.  Tensor.__init__ sets attributes of the instance.
Begin(t) ==
    /\ thr[t].pc = "begin"
    /\ \E c \in {ConcurrentCalls[thr[t].call]} :
          thr' = [thr EXCEPT ![t].pc = "branch",
                             ![t].self =
                                 NewSelf(MatrixOf(c, heap),
                                         IF c.isList THEN FiberOf(c, heap)
                                         ELSE FiberOf(c, heap)[1],
                                         c.isList, "float")]
    /\ UNCHANGED <<args, obj, err, log, conv, ret, heap>>

\* Lines 77-82 (one fiber material) or lines 85-96 (lists) in thread t.
Branch(t) ==
    /\ thr[t].pc = "branch"
    /\ \E c \in {ConcurrentCalls[thr[t].call]}, self \in {Seen(thr[t], heap)} :
          IF ~c.isList
          THEN \E s \in {InitSingle(self, self.fiber, c.v_frac, c.a_ratio)} :
                  thr' = [thr EXCEPT ![t].pc = After(s, "store"),
                                     ![t].self = s]
          ELSE \E r \in {Lines85to96(self, heap.v_frac, heap.a_ratio)} :
                  thr' = [thr EXCEPT ![t].pc = After(r.self, "loop"),
                                     ![t].self = r.self,
                                     ![t].Cm_inv = r.Cm_inv,
                                     ![t].i = 1]
    /\ UNCHANGED <<args, obj, err, log, conv, ret, heap>>

\* One pass of the loop of lines 97-107 in thread t, or its end.
Loop(t) ==
    /\ thr[t].pc = "loop"
    /\ \E self \in {Seen(thr[t], heap)}, i \in {thr[t].i} :
          IF i > self.nr_constituents
          THEN thr' = [thr EXCEPT ![t].pc = "store"]
          ELSE \E s \in {ConstituentLoop([self EXCEPT !.nr_constituents = i],
                                         thr[t].Cm_inv, self.fiber,
                                         heap.v_frac, heap.a_ratio, i)} :
                  thr' = [thr EXCEPT
                             ![t].pc = After(s, "loop"),
                             ![t].self = [s EXCEPT !.nr_constituents =
                                                       self.nr_constituents],
                             ![t].i = i + 1]
    /\ UNCHANGED <<args, obj, err, log, conv, ret, heap>>

\* Line 109 in thread t.
Store(t) ==
    /\ thr[t].pc = "store"
    /\ \E r \in {Line109(Seen(thr[t], heap),
                         ConcurrentCalls[thr[t].call].matrix, heap)} :
          /\ thr' = [thr EXCEPT ![t].pc = After(r.self, "convert"),
                                ![t].self = r.self]
          /\ heap' = r.heap
    /\ UNCHANGED <<args, obj, err, log, conv, ret>>

\* Line 110 in thread t; the constructor returns.
Convert(t) ==
    /\ thr[t].pc = "convert"
    /\ \E self \in {Seen(thr[t], heap)} :
          thr' = [thr EXCEPT
                     ![t].pc = "done",
                     ![t].self =
                         [self EXCEPT !.effective_stiffness3333 =
                                          mandel2tensor(self.effective_stiffness66)]]
    /\ UNCHANGED <<args, obj, err, log, conv, ret, heap>>

NextConcurrent ==
    \E t \in Instances :
        Begin(t) \/ Branch(t) \/ Loop(t) \/ Store(t) \/ Convert(t)

SpecConcurrent == InitConcurrent /\ [][NextConcurrent]_vars

\* ------------------------------------------------------------ C19
\* C19: however the statements of the constructor calls interleave, the
\* callers' arrays and lists (matrix.stiffness66, each fiber's stiffness66,
\* v_frac, a_ratio) keep their content, no call raises that would not raise
\* alone, and every finished instance holds the effective stiffness, in both
\* forms, that a construction on its own from the same inputs produces; this
\* includes calls that share one matrix object.
C19_NoInterference ==
    /\ heap = InputHeap
    /\ \A t \in Instances :
          /\ thr[t].pc = "raised" => Sequential[thr[t].call].err # "none"
          /\ thr[t].pc = "done" =>
                /\ thr[t].self.effective_stiffness66 =
                       Sequential[thr[t].call].effective_stiffness66
                /\ thr[t].self.effective_stiffness3333 =
                       Sequential[thr[t].call].effective_stiffness3333
                /\ thr[t].self.Cm = InputHeap[ConcurrentCalls[thr[t].call].matrix]

\* Two calls on the same matrix object, one with a single fiber material and
\* one with lists, have both finished, with different effective stiffnesses.
C19_Witness ==
    /\ thr # NoCall
    /\ \E t \in Instances, u \in Instances :
          /\ t # u
          /\ thr[t].pc = "done" /\ thr[u].pc = "done"
          /\ ConcurrentCalls[thr[t].call].matrix = ConcurrentCalls[thr[u].call].matrix
          /\ ~ConcurrentCalls[thr[t].call].isList
          /\ ConcurrentCalls[thr[u].call].isList
          /\ thr[t].self.effective_stiffness66 # thr[u].self.effective_stiffness66
          /\ ~HasNaN(thr[t].self.effective_stiffness66)
          /\ ~HasNaN(thr[u].self.effective_stiffness66)

\* ------------------------------------------------------------ C21
\* C21: the full form of the Eshelby tensor that _get_eshelby builds for an
\* aspect ratio > 1 has both minor symmetries: S[i,j,k,l] = S[j,i,k,l] and
\* S[i,j,k,l] = S[i,j,l,k] at all index positions.
C21_EshelbyMinorSymmetric ==
    (/\ ret # NoCall /\ ret.op = "_get_eshelby" /\ ret.ended
     /\ ret.return_dim = "3333" /\ ret.a_ratio # 1 /\ ret.err = "none")
    => LeftMinorSym(ret.S) /\ RightMinorSym(ret.S)

\* ------------------------------------------------------------ C22
\* C22: a construction from three empty lists over a matrix material with
\* invertible Cm passes the length check, computes no Eshelby tensor
\* and divides nothing by the total volume fraction (its only two
\* inversions are those of Cm and of the averaged concentration), and returns
\* an instance with nr_constituents = 0, c_f = 0, empty lists of
\* constituents, and effective_stiffness66 equal to Cm.
C22_EmptyLists ==
    (/\ Done /\ args.isList
     /\ args.fiber = <<>> /\ args.v_frac = <<>> /\ args.a_ratio = <<>>
     /\ inv(args.matrix.stiffness66) # Singular)
    => /\ err = "none"
       /\ log = <<"inv", "inv">>
       /\ obj.nr_constituents = 0 /\ obj.c_f = 0
       /\ obj.A_f_alpha = <<>> /\ obj.pol_alpha = <<>> /\ obj.c_alpha = <<>>
       /\ obj.effective_stiffness66 = args.matrix.stiffness66
       /\ obj.effective_stiffness3333 = mandel2tensor(args.matrix.stiffness66)

\* A construction from three empty lists with Python floats over the
\* anisotropic matrix material has returned an instance whose effective
\* stiffness is Cm.
C22_Witness ==
    /\ Returned /\ args.isList /\ args.st = "float"
    /\ args.fiber = <<>> /\ args.v_frac = <<>> /\ args.a_ratio = <<>>
    /\ args.matrix = MatrixB
    /\ obj.nr_constituents = 0 /\ obj.c_alpha = <<>>
    /\ obj.effective_stiffness66 = MatrixB.stiffness66
    /\ ~HasNaN(obj.effective_stiffness66)

====
